---------------------------- MODULE Spec2Model ----------------------------
(***************************************************************************)
(* A model of the NES emulator core: the 6502 CPU (src/src/cpu.rs), the    *)
(* memory bus (src/src/bus.rs), the PPU's timing and register surface      *)
(* (src/src/ppu.rs) and the driver loop (src/src/main.rs).                 *)
(*                                                                         *)
(* The CPU's handlers are translated as operators over a machine record m  *)
(* that is threaded through the calls in program order.  A Rust panic or   *)
(* a process exit is recorded in m.halt; the operation that hit it leaves  *)
(* the observable state as it was and the machine takes no further step.   *)
(***************************************************************************)
EXTENDS Integers, Sequences, FiniteSets, TLC

VARIABLES
  cpu,              \* CPU: register_a/x/y/sp/pc, flags (Flags.bits), cycles
  cpu_vram,         \* Bus.cpu_vram, kept sparse: index -> byte, absent = 0
  ppu,              \* the PPU's counters and registers
  rom,              \* rom.p_rom, kept sparse: [len, bytes], absent = RomFill
  overflow_checks,  \* the build: TRUE = integer overflow panics (debug)
  halt,             \* "run", "panic" (a Rust panic) or "exit" (process::exit)
  loc,              \* where the caller stands (driver loop position)
  op,               \* ghost: the last operation performed and what it observed
  prev,             \* ghost: cpu, cpu_vram and ppu as they were before it
  ppu_ticks,        \* ghost: PPU::step() calls made since the last reset()
  calls             \* ghost: operations performed so far (bounds the run)

vars == <<cpu, cpu_vram, ppu, rom, overflow_checks, halt, loc, op, prev,
          ppu_ticks, calls>>

---------------------------------------------------------------------------
(* Bounds of the model *)

\* operations a test harness performs on one CPU
MaxCalls == 5
\* frames the driver loop is followed through
MaxFrames == 1

---------------------------------------------------------------------------
(* Bit arithmetic on unsigned integers *)

RECURSIVE BitAnd(_, _)
BitAnd(a, b) ==
  IF a = 0 \/ b = 0 THEN 0
  ELSE (a % 2) * (b % 2) + 2 * BitAnd(a \div 2, b \div 2)

RECURSIVE BitOr(_, _)
BitOr(a, b) ==
  IF a = 0 THEN b
  ELSE IF b = 0 THEN a
  ELSE (IF a % 2 = 1 \/ b % 2 = 1 THEN 1 ELSE 0) + 2 * BitOr(a \div 2, b \div 2)

RECURSIVE BitXor(_, _)
BitXor(a, b) ==
  IF a = 0 THEN b
  ELSE IF b = 0 THEN a
  ELSE ((a + b) % 2) + 2 * BitXor(a \div 2, b \div 2)

\* !x on a u8 and on a u16
Not8(x) == 255 - x
Not16(x) == 65535 - x

U8(x) == x % 256
U16(x) == x % 65536
\* (x as i8) as an integer
I8(x) == IF x >= 128 THEN x - 256 ELSE x
Hi(w) == w \div 256
Lo(w) == w % 256
Word(hi, lo) == hi * 256 + lo

---------------------------------------------------------------------------
(* Flags (cpu.rs, impl Flags) *)

set_bit(bits, bit, value) ==
  IF value THEN BitOr(bits, 2 ^ bit) ELSE BitAnd(bits, Not8(2 ^ bit))

get_bit(bits, bit) == BitAnd(bits, 2 ^ bit) # 0

CARRY == 0
ZERO == 1
INT == 2
DECIMAL == 3
BFLAG == 4
UFLAG == 5
OVERFLOW == 6
NEGATIVE == 7

---------------------------------------------------------------------------
(* PPU (ppu.rs).  The counters, the registers and the scroll address are   *)
(* modelled; the pixel memories (vram, palette_table, oam_data,            *)
(* framebuffer) and the tile latches filled from them hold picture data    *)
(* that no counter, flag or register depends on, and are left out.         *)

PPU_new ==
  [ cycles |-> 0, scanline |-> 0, frame |-> 0, is_new_frame |-> FALSE,
    control |-> 0, mask |-> 0, status |-> 0, oam_addr |-> 0,
    addr |-> 0, addr_latch |-> FALSE, nmi_triggered |-> FALSE,
    vram_addr |-> 0, temp_addr |-> 0, fine_x |-> 0, write_toggle |-> FALSE ]

vram_increment(p) == IF BitAnd(p.control, 4) # 0 THEN 32 ELSE 1

increment_x(v) ==
  IF BitAnd(v, \h001F) = 31
  THEN BitXor(BitAnd(v, Not16(\h001F)), \h0400)
  ELSE v + 1

increment_y(v) ==
  IF BitAnd(v, \h7000) # \h7000
  THEN v + \h1000
  ELSE LET v1 == BitAnd(v, Not16(\h7000))
           y  == BitAnd(v1, \h03E0) \div 32
           v2 == IF y = 29 THEN BitXor(v1, \h0800) ELSE v1
           y2 == IF y = 29 \/ y = 31 THEN 0 ELSE y + 1
       IN  BitOr(BitAnd(v2, Not16(\h03E0)), y2 * 32)

transfer_horizontal(p) ==
  BitOr(BitAnd(p.vram_addr, \h7BE0), BitAnd(p.temp_addr, \h041F))

Visible(scanline) == scanline >= 0 /\ scanline < 240

\* PPU::step, one operator per statement, applied in the order of the code

count_cycle(p) == [p EXCEPT !.cycles = @ + 1]

\* "Clear Framebuffer at the start of each frame"
start_frame(p) ==
  IF p.scanline = -1 /\ p.cycles = 1 THEN [p EXCEPT !.is_new_frame = TRUE]
  ELSE p

\* "Every 8 PPU cycles, fetch data": of the eight phases only phase 0
\* (increment_x) changes modelled state, then the coarse-x step at cycle 256
fetch_tile(p) ==
  IF Visible(p.scanline) /\ p.cycles >= 1 /\ p.cycles <= 256
     /\ (p.cycles - 1) % 8 = 0
  THEN [p EXCEPT !.vram_addr = increment_x(@)]
  ELSE p

step_coarse_x(p) ==
  IF Visible(p.scanline) /\ p.cycles = 256
  THEN [p EXCEPT !.vram_addr =
                    BitOr(BitAnd(@, \hFBE0), BitAnd(@ + 1, \h041F))]
  ELSE p

\* finish_scanline letting the cycle counter reach 341
finish_scanline_late(p) ==
  IF p.cycles > 341
  THEN IF p.scanline + 1 > 261
       THEN [p EXCEPT !.cycles = 0, !.scanline = -1, !.frame = @ + 1]
       ELSE [p EXCEPT !.cycles = 0, !.scanline = @ + 1]
  ELSE p

\* "Finish scanline"
finish_scanline(p) ==
  IF p.cycles > 340
  THEN IF p.scanline + 1 > 261
       THEN [p EXCEPT !.cycles = 0, !.scanline = -1, !.frame = @ + 1]
       ELSE [p EXCEPT !.cycles = 0, !.scanline = @ + 1]
  ELSE p

\* "Increments Y at the end of each scanline"
end_of_line_y(p) ==
  IF (Visible(p.scanline) \/ p.scanline = -1) /\ p.cycles = 256
  THEN [p EXCEPT !.vram_addr = increment_y(@)]
  ELSE p

\* "reload horizontal bits at certain cycles"
reload_horizontal(p) ==
  IF (p.scanline = -1 \/ Visible(p.scanline)) /\ p.cycles = 257
  THEN [p EXCEPT !.vram_addr = transfer_horizontal(p)]
  ELSE p

\* vblank_begin raising the NMI request whatever the control register
vblank_begin_nmi_always(p) ==
  IF p.scanline = 241 /\ p.cycles = 1
  THEN [p EXCEPT !.status = BitOr(@, \h80), !.nmi_triggered = TRUE]
  ELSE p

\* vblank_begin raising the NMI request on every tick of the first cycles
\* of scanline 241, not only on the one that arrives at cycle 1
vblank_begin_nmi_held(p) ==
  IF p.scanline = 241 /\ p.cycles >= 1 /\ p.cycles <= 64
  THEN [p EXCEPT !.status = BitOr(@, \h80),
                 !.nmi_triggered =
                    IF BitAnd(p.control, \h80) # 0 THEN TRUE ELSE @]
  ELSE p

\* "VBlank begin"
vblank_begin(p) ==
  IF p.scanline = 241 /\ p.cycles = 1
  THEN [p EXCEPT !.status = BitOr(@, \h80),
                 !.nmi_triggered =
                    IF BitAnd(p.control, \h80) # 0 THEN TRUE ELSE @]
  ELSE p

\* vblank_end clearing status bit 7 in the first frames only
vblank_end_first_frames(p) ==
  IF p.scanline = -1 /\ p.cycles = 1 /\ p.frame < 2
  THEN [p EXCEPT !.status = BitAnd(@, \h7F)]
  ELSE p

\* "VBlank end"
vblank_end(p) ==
  IF p.scanline = -1 /\ p.cycles = 1
  THEN [p EXCEPT !.status = BitAnd(@, \h7F)]
  ELSE p

PPU_step(p) ==
  vblank_end(vblank_begin(reload_horizontal(end_of_line_y(finish_scanline(
    step_coarse_x(fetch_tile(start_frame(count_cycle(p)))))))))

PPU_read_register(p, addr) ==
  CASE addr = \h2000 -> p.control
    [] addr = \h2001 -> p.mask
    [] addr = \h2002 -> p.status
    [] addr = \h2003 -> p.oam_addr
    [] OTHER -> 0   \* 0x2004/0x2005/0x2007 read memories that are left out

PPU_write_register(p, addr, data) ==
  LET r == BitAnd(addr, \h2007) IN
  CASE r = \h2000 -> [p EXCEPT !.control = data]
    [] r = \h2001 -> [p EXCEPT !.mask = data]
    [] r = \h2003 -> [p EXCEPT !.oam_addr = data]
    [] r = \h2005 ->
         IF ~p.write_toggle
         THEN [p EXCEPT !.fine_x = BitAnd(data, 7),
                        !.temp_addr = BitOr(BitAnd(@, \hFFE0), data \div 8),
                        !.write_toggle = TRUE]
         ELSE [p EXCEPT !.temp_addr =
                          BitOr(BitAnd(BitOr(BitAnd(@, \h8FFF),
                                             BitAnd(data, 7) * 4096), \hFC1F),
                                BitAnd(data, \hF8) * 4),
                        !.write_toggle = FALSE]
    [] r = \h2006 ->
         IF ~p.write_toggle
         THEN [p EXCEPT !.temp_addr =
                          BitOr(BitAnd(@, \h00FF), BitAnd(data, \h3F) * 256),
                        !.write_toggle = TRUE]
         ELSE LET t == BitOr(BitAnd(p.temp_addr, \hFF00), data)
              IN  [p EXCEPT !.temp_addr = t, !.vram_addr = t,
                            !.write_toggle = FALSE]
    [] r = \h2007 -> [p EXCEPT !.addr = U16(@ + vram_increment(p))]
    [] OTHER -> p

---------------------------------------------------------------------------
(* Bus (bus.rs) and the cartridge's PRG-ROM *)

\* the byte an image holds where the model's sparse map says nothing
RomFill == \hEA

PrgByte(offset) ==
  IF offset \in DOMAIN rom.bytes THEN rom.bytes[offset] ELSE RomFill

RamByte(ram, i) == IF i \in DOMAIN ram THEN ram[i] ELSE 0

\* cpu_vram[i] = d, keeping the sparse map canonical (no stored zeroes)
RamStore(ram, i, d) ==
  IF d = 0 THEN [j \in DOMAIN ram \ {i} |-> ram[j]]
  ELSE [j \in DOMAIN ram \cup {i} |-> IF j = i THEN d ELSE ram[j]]

\* read_prom without the 16K mirror
read_prom_index_unmirrored(addr) == addr - \h8000

\* Bus::read_prom: the index into p_rom
read_prom_index(addr) ==
  LET a == addr - \h8000
  IN  IF rom.len = \h4000 /\ a >= \h4000 THEN a % \h4000 ELSE a

read_prom(addr) == PrgByte(read_prom_index(addr))

\* mem_read taking the address itself as the index into cpu_vram
Bus_mem_read_unmirrored(ram, addr) ==
  CASE addr >= 0 /\ addr <= \h1FFF -> RamByte(ram, addr)
    [] addr >= \h8000 /\ addr <= \hFFFF -> read_prom(addr)
    [] OTHER -> \hFF

\* impl Mem for Bus: mem_read
Bus_mem_read(ram, addr) ==
  CASE addr >= 0 /\ addr <= \h1FFF -> RamByte(ram, BitAnd(addr, \h07FF))
    [] addr >= \h4000 /\ addr <= \h401F -> \hFF
    [] addr >= \h8000 /\ addr <= \hFFFF -> read_prom(addr)
    [] OTHER -> \hFF

---------------------------------------------------------------------------
(* The machine record threaded through one CPU operation:                  *)
(*   registers and cycles (the CPU), cpu_vram (the bus), ppu, halt;        *)
(*   data: the value the last call returned (a byte or a word);            *)
(*   addr: the handler's local addr, as get_operand_address returned it;   *)
(*   ticks: the PPU::step() calls counted since reset();                   *)
(*   log: the bus accesses and add_cycle() calls of the operation in order *)
(*   ([k |-> "R" | "W", a |-> address, d |-> byte] and                     *)
(*    [k |-> "T", a |-> 0, d |-> number of PPU::step() calls]).            *)

Machine ==
  [ register_a |-> cpu.register_a, register_x |-> cpu.register_x,
    register_y |-> cpu.register_y, register_sp |-> cpu.register_sp,
    register_pc |-> cpu.register_pc, flags |-> cpu.flags,
    cycles |-> cpu.cycles, cpu_vram |-> cpu_vram, ppu |-> ppu,
    halt |-> halt, data |-> 0, addr |-> 0, ticks |-> ppu_ticks,
    log |-> << >> ]

CpuOf(m) ==
  [ register_a |-> m.register_a, register_x |-> m.register_x,
    register_y |-> m.register_y, register_sp |-> m.register_sp,
    register_pc |-> m.register_pc, flags |-> m.flags, cycles |-> m.cycles ]

Panic(m) == [m EXCEPT !.halt = IF @ = "run" THEN "panic" ELSE @]
Exit(m) == [m EXCEPT !.halt = IF @ = "run" THEN "exit" ELSE @]

\* an addition on a uN that overflows: a panic where the build checks it
Ovf(m, overflows) == IF overflow_checks /\ overflows THEN Panic(m) ELSE m

\* an access made while the process is alive
Logged(m, k, a, d) ==
  IF m.halt = "run" THEN [m EXCEPT !.log = Append(@, [k |-> k, a |-> a, d |-> d])]
  ELSE m

\* impl Mem for Bus: mem_write
Bus_mem_write(m, addr, data) ==
  CASE addr >= 0 /\ addr <= \h1FFF ->
         [m EXCEPT !.cpu_vram = RamStore(@, BitAnd(addr, \h07FF), data)]
    [] addr = \h6000 ->
         \* 0x80 prints "Running"; every other byte ends the process (a
         \* failure code first reads its message from 0x6004.., unlogged)
         IF data = \h80 THEN m ELSE Exit(m)
    [] addr >= \h6004 /\ addr <= \h7000 -> m    \* prints the byte
    [] addr >= \h8000 /\ addr <= \hFFFF -> Panic(m)
    [] OTHER -> m

\* a call that returned data
Returned(m, data) == [m EXCEPT !.data = data]

\* impl Mem for CPU: mem_read returns its byte in .data
mem_read(m, addr) ==
  Returned(Logged(m, "R", addr, Bus_mem_read(m.cpu_vram, addr)),
           Bus_mem_read(m.cpu_vram, addr))

mem_write(m, addr, data) == Bus_mem_write(Logged(m, "W", addr, data), addr, data)

\* lo read at a_lo, then hi read at a_hi (an address whose computation
\* may overflow), returned as (hi << 8) | lo
read_lo_hi(m, a_lo, a_hi, overflows) ==
  Returned(Logged(Ovf(Logged(m, "R", a_lo, Bus_mem_read(m.cpu_vram, a_lo)),
                      overflows),
                  "R", a_hi, Bus_mem_read(m.cpu_vram, a_hi)),
           Word(Bus_mem_read(m.cpu_vram, a_hi), Bus_mem_read(m.cpu_vram, a_lo)))

\* Mem::mem_read_16: lo at addr, hi at addr + 1
mem_read_16(m, addr) ==
  read_lo_hi(m, addr, U16(addr + 1), addr + 1 > \hFFFF)

---------------------------------------------------------------------------
(* CPU (cpu.rs) *)

STACK == \h0100
STACK_RESET == \hFD

Flags_new == \h24

CPU_new ==
  [ register_a |-> 0, register_x |-> 0, register_y |-> 0,
    register_sp |-> STACK_RESET, register_pc |-> 0, flags |-> Flags_new,
    cycles |-> 0 ]

set_flag(m, bit, value) == [m EXCEPT !.flags = set_bit(@, bit, value)]
flag(m, bit) == get_bit(m.flags, bit)

\* n calls of PPU::step() made by the CPU (ticks counts the calls)
RECURSIVE ppu_steps(_, _)
ppu_steps(m, n) ==
  IF n = 0 THEN m
  ELSE ppu_steps([m EXCEPT !.ppu = PPU_step(@), !.ticks = @ + 1], n - 1)

\* add_cycle with one of its three PPU steps left out
add_cycle_two_steps(m) ==
  Logged(ppu_steps([m EXCEPT !.cycles = @ + 1], 2), "T", 0, 2)

\* CPU::add_cycle
add_cycle(m) == Logged(ppu_steps([m EXCEPT !.cycles = @ + 1], 3), "T", 0, 3)

RECURSIVE add_cycles(_, _)
add_cycles(m, n) == IF n = 0 THEN m ELSE add_cycles(add_cycle(m), n - 1)

update_flags(m, result) ==
  set_flag(set_flag(m, ZERO, result = 0), NEGATIVE, BitAnd(result, \h80) # 0)

stack_push(m, data) ==
  [mem_write(m, STACK + m.register_sp, data)
     EXCEPT !.register_sp = U8(@ + 255)]

\* stack_pop reading at 0x0100 + SP before it increments SP
stack_pop_read_first(m) ==
  [mem_read(m, STACK + m.register_sp) EXCEPT !.register_sp = U8(@ + 1)]

\* stack_pop returns its byte in .data
stack_pop(m) ==
  mem_read([m EXCEPT !.register_sp = U8(@ + 1)], STACK + U8(m.register_sp + 1))

\* stack_push_16 pushing lo before hi
stack_push_16_lo_first(m, data) == stack_push(stack_push(m, Lo(data)), Hi(data))

stack_push_16(m, data) == stack_push(stack_push(m, Hi(data)), Lo(data))

\* stack_pop_16 taking the first byte popped as the high one
stack_pop_16_hi_first(m) ==
  LET lo(r) == [stack_pop(r) EXCEPT !.data = Word(r.data, @)]
  IN  lo(stack_pop(m))

\* stack_pop_16: lo, then hi, returned as hi << 8 | lo
stack_pop_16(m) ==
  LET hi(r) == [stack_pop(r) EXCEPT !.data = Word(@, r.data)]
  IN  hi(stack_pop(m))

\* the jump that ends a handler: self.register_pc = <the word just returned>
jump(m) == [m EXCEPT !.register_pc = m.data]

\* reset that leaves the cycle counter as it was
reset_keeping_cycles(m) ==
  jump(mem_read_16([m EXCEPT !.register_a = 0, !.register_x = 0,
                             !.register_y = 0, !.register_sp = STACK_RESET,
                             !.flags = \h24],
                   \hFFFC))

\* CPU::reset
reset(m) ==
  jump(mem_read_16([m EXCEPT !.register_a = 0, !.register_x = 0,
                             !.register_y = 0, !.register_sp = STACK_RESET,
                             !.flags = \h24, !.cycles = 0, !.ticks = 0],
                   \hFFFC))

\* CPU::trigger_nmi: the byte it pushes as the status
nmi_status(bits) == BitAnd(BitOr(bits, \h20), \h10)

trigger_nmi(m) ==
  LET status(r) == stack_push(r, nmi_status(r.flags))
      vector(r) == jump(mem_read_16(set_flag(r, INT, TRUE), \hFFFA))
  IN  add_cycles(vector(status(stack_push_16(m, m.register_pc))), 7)

---------------------------------------------------------------------------
(* Addressing (get_absolute_address, get_operand_address): the address is  *)
(* returned in .addr of the machine that made the operand fetches.         *)

PageOf(a) == BitAnd(a, \hFF00)

with_addr(m, addr) == [m EXCEPT !.addr = addr]

\* base (just read, in .data) plus an index register, and the extra cycle
\* of AbsoluteX, AbsoluteY and IndirectY when that leaves the page of base
indexed_address(m, index, cycle_page) ==
  with_addr(IF cycle_page /\ PageOf(m.data) # PageOf(U16(m.data + index))
     THEN add_cycle(m) ELSE m,
     U16(m.data + index))

\* the pointer of IndirectX and IndirectY, read from page zero with a
\* wrapping second byte
zero_page_pointer(m, ptr) == read_lo_hi(m, ptr, U8(ptr + 1), FALSE)

get_absolute_address(m, mode, addr, cycle_page) ==
  CASE mode = "ZeroPage" ->
         LET pos(r) == with_addr(r, r.data) IN pos(mem_read(m, addr))
    [] mode = "Absolute" ->
         LET pos(r) == with_addr(r, r.data) IN pos(mem_read_16(m, addr))
    [] mode = "ZeroPageX" ->
         LET pos(r) == with_addr(r, U8(r.data + r.register_x))
         IN  pos(mem_read(m, addr))
    [] mode = "ZeroPageY" ->
         LET pos(r) == with_addr(r, U8(r.data + r.register_y))
         IN  pos(mem_read(m, addr))
    [] mode = "AbsoluteX" ->
         indexed_address(mem_read_16(m, addr), m.register_x, cycle_page)
    [] mode = "AbsoluteY" ->
         indexed_address(mem_read_16(m, addr), m.register_y, cycle_page)
    [] mode = "IndirectX" ->
         LET ptr(r)   == zero_page_pointer(r, U8(r.data + r.register_x))
             deref(r) == with_addr(r, r.data)
         IN  deref(ptr(mem_read(m, addr)))
    [] mode = "IndirectY" ->
         LET base(r) == zero_page_pointer(r, r.data)
         IN  indexed_address(base(mem_read(m, addr)), m.register_y, cycle_page)
    [] OTHER -> Panic(m)   \* panic!("mode {:?} is not supported", mode)

get_operand_address(m, mode, cycle_page) ==
  IF mode = "Immediate" THEN with_addr(m, m.register_pc)
  ELSE get_absolute_address(m, mode, m.register_pc, cycle_page)

\* the start of most handlers:
\*   let addr = self.get_operand_address(mode, cycle_page);
\*   let data = self.mem_read(addr);
\* leaving addr in .addr and data in .data
load(m) == mem_read(m, m.addr)
operand(m, mode, cycle_page) == load(get_operand_address(m, mode, cycle_page))

---------------------------------------------------------------------------
(* Opcode helper methods *)

\* add_to_reg_a setting the overflow flag after it has assigned A
add_to_reg_a_v_after(m, data) ==
  LET sum    == m.register_a + data + (IF flag(m, CARRY) THEN 1 ELSE 0)
      result == U8(sum)
      carried(r)  == set_flag(r, CARRY, sum > \hFF)
      overflow(r) == set_flag(r, OVERFLOW,
                       BitAnd(BitAnd(BitXor(data, result),
                                     BitXor(result, result)), \h80) # 0)
      stored(r)   == update_flags([r EXCEPT !.register_a = result], result)
  IN  stored(overflow(carried(m)))

add_to_reg_a(m, data) ==
  LET sum    == m.register_a + data + (IF flag(m, CARRY) THEN 1 ELSE 0)
      result == U8(sum)
      carried(r)  == set_flag(r, CARRY, sum > \hFF)
      overflow(r) == set_flag(r, OVERFLOW,
                       BitAnd(BitAnd(BitXor(data, result),
                                     BitXor(result, m.register_a)), \h80) # 0)
      stored(r)   == update_flags([r EXCEPT !.register_a = result], result)
  IN  stored(overflow(carried(m)))

\* ((data as i8).wrapping_neg().wrapping_sub(1)) as u8
neg_minus_1(data) == U8(U8(256 - data) + 255)

\* sub_from_reg_a adding the two's complement of data
sub_from_reg_a_negated(m, data) ==
  LET again(r) == update_flags(r, r.register_a)
  IN  again(add_to_reg_a(m, U8(256 - data)))

sub_from_reg_a(m, data) ==
  LET again(r) == update_flags(r, r.register_a)
  IN  again(add_to_reg_a(m, neg_minus_1(data)))

and_with_reg_a(m, data) ==
  update_flags([m EXCEPT !.register_a = BitAnd(data, @)],
               BitAnd(data, m.register_a))

or_with_reg_a(m, data) ==
  update_flags([m EXCEPT !.register_a = BitOr(data, @)],
               BitOr(data, m.register_a))

xor_with_reg_a(m, data) ==
  update_flags([m EXCEPT !.register_a = BitXor(data, @)],
               BitXor(data, m.register_a))

branch(m, condition) ==
  IF condition
  THEN LET addr(r) == [r EXCEPT !.register_pc =
                                   U16(@ + 1 + I8(r.data) + 65536)]
       IN  addr(mem_read(m, m.register_pc))
  ELSE m

\* compare setting the carry only when the register is the greater
compare_carry_strict(m, mode, compare_with) ==
  LET flags(o) == update_flags(set_flag(o, CARRY, compare_with > o.data),
                               U8(compare_with + 256 - o.data))
  IN  flags(operand(m, mode, TRUE))

compare(m, mode, compare_with) ==
  LET flags(o) == update_flags(set_flag(o, CARRY, compare_with >= o.data),
                               U8(compare_with + 256 - o.data))
  IN  flags(operand(m, mode, TRUE))

---------------------------------------------------------------------------
(* Official opcodes.  A handler that returns its byte (asl, inc, lsr, rol, *)
(* ror) returns it in .data.                                               *)

adc(m, mode) ==
  LET add(o) == add_to_reg_a(o, o.data) IN add(operand(m, mode, TRUE))

and(m, mode) ==
  LET result(o) == update_flags([o EXCEPT !.register_a = BitAnd(@, o.data)],
                                BitAnd(o.register_a, o.data))
  IN  result(operand(m, mode, TRUE))

asl_a(m) ==
  update_flags([set_flag(m, CARRY, m.register_a \div 128 = 1)
                  EXCEPT !.register_a = U8(@ * 2)],
               U8(m.register_a * 2))

\* the tail of asl, lsr, rol and ror on memory:
\*   self.mem_write(addr, data); self.update_flags(data); return data;
write_back(m) == update_flags(mem_write(m, m.addr, m.data), m.data)

asl(m, mode) ==
  LET shift(o) == Returned(set_flag(o, CARRY, o.data \div 128 = 1),
                           U8(o.data * 2))
  IN  write_back(shift(operand(m, mode, FALSE)))

bcc(m) == branch(m, ~flag(m, CARRY))
bcs(m) == branch(m, flag(m, CARRY))
beq(m) == branch(m, flag(m, ZERO))

bit(m, mode) ==
  LET test(o) ==
        set_flag(set_flag(set_flag(o, ZERO, BitAnd(o.register_a, o.data) = 0),
                          NEGATIVE, BitAnd(o.data, \h80) > 0),
                 OVERFLOW, BitAnd(o.data, \h40) > 0)
  IN  test(operand(m, mode, FALSE))

bmi(m) == branch(m, flag(m, NEGATIVE))
bne(m) == branch(m, ~flag(m, ZERO))
bpl(m) == branch(m, ~flag(m, NEGATIVE))

\* CPU::brk: defined in cpu.rs, called from nowhere
brk(m) ==
  set_flag(jump(mem_read_16(stack_push(stack_push_16(m, m.register_pc),
                                       m.flags),
                            \hFFFE)),
           BFLAG, TRUE)

bvc(m) == branch(m, ~flag(m, OVERFLOW))
bvs(m) == branch(m, flag(m, OVERFLOW))

clc(m) == set_flag(m, CARRY, FALSE)
cld(m) == set_flag(m, DECIMAL, FALSE)
cli(m) == set_flag(m, INT, FALSE)
clv(m) == set_flag(m, OVERFLOW, FALSE)

cmp(m, mode) == compare(m, mode, m.register_a)
cpx(m, mode) == compare(m, mode, m.register_x)
cpy(m, mode) == compare(m, mode, m.register_y)

dec(m, mode) ==
  LET minus_1(o) == Returned(o, U8(o.data + 255))
  IN  write_back(minus_1(operand(m, mode, FALSE)))

dex(m) ==
  update_flags([m EXCEPT !.register_x = U8(@ + 255)], U8(m.register_x + 255))

dey(m) ==
  update_flags([m EXCEPT !.register_y = U8(@ + 255)], U8(m.register_y + 255))

eor(m, mode) ==
  LET result(o) == update_flags([o EXCEPT !.register_a = BitXor(@, o.data)],
                                BitXor(o.register_a, o.data))
  IN  result(operand(m, mode, TRUE))

inc(m, mode) ==
  LET plus_1(o) == Returned(o, U8(o.data + 1))
  IN  write_back(plus_1(operand(m, mode, FALSE)))

inx(m) ==
  update_flags([m EXCEPT !.register_x = U8(@ + 1)], U8(m.register_x + 1))

iny(m) ==
  update_flags([m EXCEPT !.register_y = U8(@ + 1)], U8(m.register_y + 1))

jmp_abs(m) == jump(mem_read_16(m, m.register_pc))

\* jmp_ind reading the high byte from the address after the pointer
jmp_ind_next_page(m) ==
  LET indirect_ref(r) == mem_read_16(r, r.data)
  IN  jump(indirect_ref(mem_read_16(m, m.register_pc)))

jmp_ind(m) ==
  LET indirect_ref(r) ==
        IF BitAnd(r.data, \h00FF) = \h00FF
        THEN read_lo_hi(r, r.data, BitAnd(r.data, \hFF00), FALSE)
        ELSE mem_read_16(r, r.data)
  IN  jump(indirect_ref(mem_read_16(m, m.register_pc)))

jsr(m) ==
  LET addr(r) == mem_read_16(r, r.register_pc)
  IN  jump(addr(stack_push_16(Ovf(m, m.register_pc + 1 > \hFFFF),
                              U16(m.register_pc + 1))))

lda(m, mode) ==
  LET value(o) == update_flags([o EXCEPT !.register_a = o.data], o.data)
  IN  value(operand(m, mode, TRUE))

ldx(m, mode) ==
  LET value(o) == update_flags([o EXCEPT !.register_x = o.data], o.data)
  IN  value(operand(m, mode, TRUE))

ldy(m, mode) ==
  LET value(o) == update_flags([o EXCEPT !.register_y = o.data], o.data)
  IN  value(operand(m, mode, TRUE))

lsr_a(m) ==
  update_flags([set_flag(m, CARRY, BitAnd(m.register_a, 1) = 1)
                  EXCEPT !.register_a = @ \div 2],
               m.register_a \div 2)

lsr(m, mode) ==
  LET shift(o) == Returned(set_flag(o, CARRY, BitAnd(o.data, 1) = 1),
                           o.data \div 2)
  IN  write_back(shift(operand(m, mode, FALSE)))

nop(m) == m

ora(m, mode) ==
  LET result(o) == update_flags([o EXCEPT !.register_a = BitOr(@, o.data)],
                                BitOr(o.register_a, o.data))
  IN  result(operand(m, mode, TRUE))

pha(m) == stack_push(m, m.register_a)

\* php pushing the flags as they are
php_bits_as_they_are(m) == stack_push(m, m.flags)

php(m) ==
  stack_push(m, set_bit(set_bit(m.flags, BFLAG, TRUE), UFLAG, TRUE))

pla(m) ==
  LET data(r) == update_flags([r EXCEPT !.register_a = r.data], r.data)
  IN  data(stack_pop(m))

\* the popped byte taken as the flags with only the B flag cleared
pop_flags_u_as_popped(m) ==
  LET bits(r) == set_flag([r EXCEPT !.flags = r.data], BFLAG, FALSE)
  IN  bits(stack_pop(m))

\* the popped byte taken as the flags with only the U flag set
pop_flags_b_as_popped(m) ==
  LET bits(r) == set_flag([r EXCEPT !.flags = r.data], UFLAG, TRUE)
  IN  bits(stack_pop(m))

\* self.flags.bits = self.stack_pop(); set_bflag(false); set_uflag(true)
pop_flags(m) ==
  LET bits(r) == set_flag(set_flag([r EXCEPT !.flags = r.data], BFLAG, FALSE),
                          UFLAG, TRUE)
  IN  bits(stack_pop(m))

plp(m) == pop_flags(m)

rol_a(m) ==
  LET data == BitOr(U8(m.register_a * 2), IF flag(m, CARRY) THEN 1 ELSE 0)
  IN  update_flags([set_flag(m, CARRY, m.register_a \div 128 = 1)
                      EXCEPT !.register_a = data], data)

rol(m, mode) ==
  LET rotate(o) ==
        Returned(set_flag(o, CARRY, o.data \div 128 = 1),
                 BitOr(U8(o.data * 2), IF flag(o, CARRY) THEN 1 ELSE 0))
  IN  write_back(rotate(operand(m, mode, FALSE)))

\* ror_a shifting a zero into bit 7, whatever the carry was
ror_a_carry_in_dropped(m) ==
  LET data == m.register_a \div 2
  IN  update_flags([set_flag(m, CARRY, BitAnd(m.register_a, 1) = 1)
                      EXCEPT !.register_a = data], data)

ror_a(m) ==
  LET data == IF flag(m, CARRY) THEN BitOr(m.register_a \div 2, \h80)
              ELSE m.register_a \div 2
  IN  update_flags([set_flag(m, CARRY, BitAnd(m.register_a, 1) = 1)
                      EXCEPT !.register_a = data], data)

ror(m, mode) ==
  LET rotate(o) ==
        Returned(set_flag(o, CARRY, BitAnd(o.data, 1) = 1),
                 IF flag(o, CARRY) THEN BitOr(o.data \div 2, \h80)
                 ELSE o.data \div 2)
  IN  write_back(rotate(operand(m, mode, FALSE)))

rti(m) == jump(stack_pop_16(pop_flags(m)))

\* rts returning to the popped address itself
rts_to_popped(m) == jump(stack_pop_16(m))

rts(m) ==
  LET plus_1(r) == [Ovf(r, r.data + 1 > \hFFFF)
                      EXCEPT !.register_pc = U16(r.data + 1)]
  IN  plus_1(stack_pop_16(m))

\* sbc taking V from the subtracted byte itself: the overflow flag of
\* A + ~M, inverted
sbc_v_inverted(m, mode) ==
  LET inverted(r) == set_flag(r, OVERFLOW, ~flag(r, OVERFLOW))
      add(o) == inverted(add_to_reg_a(o, neg_minus_1(o.data)))
  IN  add(operand(m, mode, TRUE))

sbc(m, mode) ==
  LET add(o) == add_to_reg_a(o, neg_minus_1(o.data))
  IN  add(operand(m, mode, TRUE))

sec(m) == set_flag(m, CARRY, TRUE)
sed(m) == set_flag(m, DECIMAL, TRUE)
sei(m) == set_flag(m, INT, TRUE)

sta(m, mode) ==
  LET store(r) == mem_write(r, r.addr, r.register_a)
  IN  store(get_operand_address(m, mode, FALSE))

stx(m, mode) ==
  LET store(r) == mem_write(r, r.addr, r.register_x)
  IN  store(get_operand_address(m, mode, FALSE))

sty(m, mode) ==
  LET store(r) == mem_write(r, r.addr, r.register_y)
  IN  store(get_operand_address(m, mode, FALSE))

tax(m) == update_flags([m EXCEPT !.register_x = m.register_a], m.register_a)
tay(m) == update_flags([m EXCEPT !.register_y = m.register_a], m.register_a)
tsx(m) == update_flags([m EXCEPT !.register_x = m.register_sp], m.register_sp)
txa(m) == update_flags([m EXCEPT !.register_a = m.register_x], m.register_x)
txs(m) == [m EXCEPT !.register_sp = m.register_x]
tya(m) == update_flags([m EXCEPT !.register_a = m.register_y], m.register_y)

---------------------------------------------------------------------------
(* Unofficial opcodes *)

\* let addr = <the word just read> + index as u16: a plain u16 addition
plus_index(m, index) ==
  with_addr(Ovf(m, m.data + index > \hFFFF), U16(m.data + index))

\* (addr >> 8) as u8 + 1: a plain u8 addition, returned in .data
hi_plus_1(m) == Returned(Ovf(m, Hi(m.addr) + 1 > \hFF), U8(Hi(m.addr) + 1))

uahx_ay(m) ==
  LET store(r) == mem_write(r, r.addr,
                    BitAnd(BitAnd(r.register_a, r.register_x), Hi(r.addr)))
  IN  store(plus_index(mem_read_16(m, m.register_pc), m.register_y))

uahx_iy(m) ==
  LET pos(r)   == mem_read_16(r, r.data)
      store(r) == mem_write(r, r.addr,
                    BitAnd(BitAnd(r.register_a, r.register_x), Hi(r.addr)))
  IN  store(plus_index(pos(mem_read(m, m.register_pc)), m.register_y))

ualr(m, mode) ==
  LET and_a(o) == and_with_reg_a(o, o.data)
  IN  lsr_a(and_a(operand(m, mode, FALSE)))

uanc(m, mode) ==
  LET and_a(o) == and_with_reg_a(o, o.data)
      carry(r) == set_flag(r, CARRY, flag(r, NEGATIVE))
  IN  carry(and_a(operand(m, mode, FALSE)))

uarr(m, mode) ==
  LET and_a(o) == and_with_reg_a(o, o.data)
      bit5(r)  == (r.register_a \div 32) % 2
      bit6(r)  == (r.register_a \div 64) % 2
      flags(r) == update_flags(
                    set_flag(set_flag(r, CARRY, bit6(r) = 1),
                             OVERFLOW, BitXor(bit5(r), bit6(r)) = 1),
                    r.register_a)
  IN  flags(ror_a(and_a(operand(m, mode, FALSE))))

uaxs(m, mode) ==
  LET x_and_a(o) == BitAnd(o.register_a, o.register_x)
      result(o)  == U8(x_and_a(o) + 256 - o.data)
      sub(o) == [update_flags(set_flag(o, CARRY, o.data <= x_and_a(o)),
                              result(o))
                   EXCEPT !.register_x = result(o)]
  IN  sub(operand(m, mode, FALSE))

\* udcp setting the carry only when the decremented byte is below A
udcp_carry_strict(m, mode) ==
  LET minus_1(o) == Returned(o, U8(o.data + 255))
      store(r)   == mem_write(r, r.addr, r.data)
      cmp_a(r)   == update_flags(set_flag(r, CARRY, r.data < r.register_a),
                                 U8(r.register_a + 256 - r.data))
  IN  cmp_a(store(minus_1(operand(m, mode, FALSE))))

udcp(m, mode) ==
  LET minus_1(o) == Returned(o, U8(o.data + 255))
      store(r)   == mem_write(r, r.addr, r.data)
      cmp_a(r)   == update_flags(set_flag(r, CARRY, r.data <= r.register_a),
                                 U8(r.register_a + 256 - r.data))
  IN  cmp_a(store(minus_1(operand(m, mode, FALSE))))

uisb(m, mode) ==
  LET sub(r) == sub_from_reg_a(r, r.data) IN sub(inc(m, mode))

ulas(m, mode) ==
  LET masked(o) == BitAnd(o.data, o.register_sp)
      spread(o) == update_flags([o EXCEPT !.register_a = masked(o),
                                          !.register_x = masked(o),
                                          !.register_sp = masked(o)],
                                masked(o))
  IN  spread(operand(m, mode, FALSE))

ulax(m, mode) ==
  LET value(o) == update_flags([o EXCEPT !.register_a = o.data,
                                         !.register_x = o.data], o.data)
  IN  value(operand(m, mode, TRUE))

ulxa(m, mode) == tax(lda(m, mode))

unop(m) == m

unop_read(m, mode) == operand(m, mode, FALSE)

urla(m, mode) ==
  LET and_a(r) == and_with_reg_a(r, r.data) IN and_a(rol(m, mode))

urra(m, mode) ==
  LET add(r) == add_to_reg_a(r, r.data) IN add(ror(m, mode))

usax(m, mode) ==
  LET store(r) == mem_write(r, r.addr, BitAnd(m.register_a, m.register_x))
  IN  store(get_operand_address(m, mode, FALSE))

usbc(m, mode) ==
  LET sub(o) == sub_from_reg_a(o, o.data) IN sub(operand(m, mode, FALSE))

ushx(m) ==
  LET store(r) == mem_write(r, r.addr, BitAnd(r.register_x, r.data))
  IN  store(hi_plus_1(plus_index(mem_read_16(m, m.register_pc),
                                 m.register_y)))

ushy(m) ==
  LET store(r) == mem_write(r, r.addr, BitAnd(r.register_y, r.data))
  IN  store(hi_plus_1(plus_index(mem_read_16(m, m.register_pc),
                                 m.register_x)))

uskb(m) == m

uslo(m, mode) ==
  LET or_a(r) == or_with_reg_a(r, r.data) IN or_a(asl(m, mode))

usre(m, mode) ==
  LET xor_a(r) == xor_with_reg_a(r, r.data) IN xor_a(lsr(m, mode))

utas(m) ==
  LET store(r) == mem_write(r, r.addr, BitAnd(r.data, r.register_sp))
  IN  store(hi_plus_1(plus_index(
        mem_read_16([m EXCEPT !.register_sp =
                                 BitAnd(m.register_a, m.register_x)],
                    m.register_pc),
        m.register_y)))

uxaa(m, mode) ==
  LET and_a(o) == and_with_reg_a(o, o.data)
  IN  and_a(operand(update_flags([m EXCEPT !.register_a = m.register_x],
                                 m.register_x),
                    mode, FALSE))
---------------------------------------------------------------------------
(* CPU::step *)

\* opcodes::OPCodes_MAP: byte -> (mnemonic, mode, len, cycles)
OPCodes_TABLE ==
  << <<"BRK", "NoneAddressing", 1, 7>>, <<"ORA", "IndirectX", 2, 6>>, <<"NOP", "NoneAddressing", 1, 2>>, <<"SLO", "IndirectX", 2, 8>>,
     <<"NOPR", "ZeroPage", 2, 3>>, <<"ORA", "ZeroPage", 2, 3>>, <<"ASL", "ZeroPage", 2, 5>>, <<"SLO", "ZeroPage", 2, 5>>,
     <<"PHP", "NoneAddressing", 1, 3>>, <<"ORA", "Immediate", 2, 2>>, <<"ASL", "NoneAddressing", 1, 2>>, <<"ANC", "Immediate", 2, 2>>,
     <<"NOPR", "Absolute", 3, 4>>, <<"ORA", "Absolute", 3, 4>>, <<"ASL", "Absolute", 3, 6>>, <<"SLO", "Absolute", 3, 6>>,
     <<"BPL", "NoneAddressing", 2, 2>>, <<"ORA", "IndirectY", 2, 5>>, <<"NOP", "NoneAddressing", 1, 2>>, <<"SLO", "IndirectY", 2, 8>>,
     <<"NOPR", "ZeroPageX", 2, 4>>, <<"ORA", "ZeroPageX", 2, 4>>, <<"ASL", "ZeroPageX", 2, 6>>, <<"SLO", "ZeroPageX", 2, 6>>,
     <<"CLC", "NoneAddressing", 1, 2>>, <<"ORA", "AbsoluteY", 3, 4>>, <<"NOP", "NoneAddressing", 1, 2>>, <<"SLO", "AbsoluteY", 3, 7>>,
     <<"NOPR", "AbsoluteX", 3, 4>>, <<"ORA", "AbsoluteX", 3, 4>>, <<"ASL", "AbsoluteX", 3, 7>>, <<"SLO", "AbsoluteX", 3, 7>>,
     <<"JSR", "NoneAddressing", 3, 6>>, <<"AND", "IndirectX", 2, 6>>, <<"NOP", "NoneAddressing", 1, 2>>, <<"RLA", "IndirectX", 2, 8>>,
     <<"BIT", "ZeroPage", 2, 3>>, <<"AND", "ZeroPage", 2, 3>>, <<"ROL", "ZeroPage", 2, 5>>, <<"RLA", "ZeroPage", 2, 5>>,
     <<"PLP", "NoneAddressing", 1, 4>>, <<"AND", "Immediate", 2, 2>>, <<"ROL", "NoneAddressing", 1, 2>>, <<"ANC", "Immediate", 2, 2>>,
     <<"BIT", "Absolute", 3, 4>>, <<"AND", "Absolute", 3, 4>>, <<"ROL", "Absolute", 3, 6>>, <<"RLA", "Absolute", 3, 6>>,
     <<"BMI", "NoneAddressing", 2, 2>>, <<"AND", "IndirectY", 2, 5>>, <<"NOP", "NoneAddressing", 1, 2>>, <<"RLA", "IndirectY", 2, 8>>,
     <<"NOPR", "ZeroPageX", 2, 4>>, <<"AND", "ZeroPageX", 2, 4>>, <<"ROL", "ZeroPageX", 2, 6>>, <<"RLA", "ZeroPageX", 2, 6>>,
     <<"SEC", "NoneAddressing", 1, 2>>, <<"AND", "AbsoluteY", 3, 4>>, <<"NOP", "NoneAddressing", 1, 2>>, <<"RLA", "AbsoluteY", 3, 7>>,
     <<"NOPR", "AbsoluteX", 3, 4>>, <<"AND", "AbsoluteX", 3, 4>>, <<"ROL", "AbsoluteX", 3, 7>>, <<"RLA", "AbsoluteX", 3, 7>>,
     <<"RTI", "NoneAddressing", 1, 6>>, <<"EOR", "IndirectX", 2, 6>>, <<"NOP", "NoneAddressing", 1, 2>>, <<"SRE", "IndirectX", 2, 8>>,
     <<"NOPR", "ZeroPage", 2, 3>>, <<"EOR", "ZeroPage", 2, 3>>, <<"LSR", "ZeroPage", 2, 5>>, <<"SRE", "ZeroPage", 2, 5>>,
     <<"PHA", "NoneAddressing", 1, 3>>, <<"EOR", "Immediate", 2, 2>>, <<"LSR", "NoneAddressing", 1, 2>>, <<"ALR", "Immediate", 2, 2>>,
     <<"JMP", "NoneAddressing", 3, 3>>, <<"EOR", "Absolute", 3, 4>>, <<"LSR", "Absolute", 3, 6>>, <<"SRE", "Absolute", 3, 6>>,
     <<"BVC", "NoneAddressing", 2, 2>>, <<"EOR", "IndirectY", 2, 5>>, <<"NOP", "NoneAddressing", 1, 2>>, <<"SRE", "IndirectY", 2, 8>>,
     <<"NOPR", "ZeroPageX", 2, 4>>, <<"EOR", "ZeroPageX", 2, 4>>, <<"LSR", "ZeroPageX", 2, 6>>, <<"SRE", "ZeroPageX", 2, 6>>,
     <<"CLI", "NoneAddressing", 1, 2>>, <<"EOR", "AbsoluteY", 3, 4>>, <<"NOP", "NoneAddressing", 1, 2>>, <<"SRE", "AbsoluteY", 3, 7>>,
     <<"NOPR", "AbsoluteX", 3, 4>>, <<"EOR", "AbsoluteX", 3, 4>>, <<"LSR", "AbsoluteX", 3, 7>>, <<"SRE", "AbsoluteX", 3, 7>>,
     <<"RTS", "NoneAddressing", 1, 6>>, <<"ADC", "IndirectX", 2, 6>>, <<"NOP", "NoneAddressing", 1, 2>>, <<"RRA", "IndirectX", 2, 8>>,
     <<"NOPR", "ZeroPage", 2, 3>>, <<"ADC", "ZeroPage", 2, 3>>, <<"ROR", "ZeroPage", 2, 5>>, <<"RRA", "ZeroPage", 2, 5>>,
     <<"PLA", "NoneAddressing", 1, 4>>, <<"ADC", "Immediate", 2, 2>>, <<"ROR", "NoneAddressing", 1, 2>>, <<"ARR", "Immediate", 2, 2>>,
     <<"JMP", "NoneAddressing", 3, 5>>, <<"ADC", "Absolute", 3, 4>>, <<"ROR", "Absolute", 3, 6>>, <<"RRA", "Absolute", 3, 6>>,
     <<"BVS", "NoneAddressing", 2, 2>>, <<"ADC", "IndirectY", 2, 5>>, <<"NOP", "NoneAddressing", 1, 2>>, <<"RRA", "IndirectY", 2, 8>>,
     <<"NOPR", "ZeroPageX", 2, 4>>, <<"ADC", "ZeroPageX", 2, 4>>, <<"ROR", "ZeroPageX", 2, 6>>, <<"RRA", "ZeroPageX", 2, 6>>,
     <<"SEI", "NoneAddressing", 1, 2>>, <<"ADC", "AbsoluteY", 3, 4>>, <<"NOP", "NoneAddressing", 1, 2>>, <<"RRA", "AbsoluteY", 3, 7>>,
     <<"NOPR", "AbsoluteX", 3, 4>>, <<"ADC", "AbsoluteX", 3, 4>>, <<"ROR", "AbsoluteX", 3, 7>>, <<"RRA", "AbsoluteX", 3, 7>>,
     <<"SKB", "Immediate", 2, 2>>, <<"STA", "IndirectX", 2, 6>>, <<"SKB", "Immediate", 2, 2>>, <<"SAX", "IndirectX", 2, 6>>,
     <<"STY", "ZeroPage", 2, 3>>, <<"STA", "ZeroPage", 2, 3>>, <<"STX", "ZeroPage", 2, 3>>, <<"SAX", "ZeroPage", 2, 3>>,
     <<"DEY", "NoneAddressing", 1, 2>>, <<"SKB", "Immediate", 2, 2>>, <<"TXA", "NoneAddressing", 1, 2>>, <<"XAA", "Immediate", 2, 2>>,
     <<"STY", "Absolute", 3, 4>>, <<"STA", "Absolute", 3, 4>>, <<"STX", "Absolute", 3, 4>>, <<"SAX", "Absolute", 3, 4>>,
     <<"BCC", "NoneAddressing", 2, 2>>, <<"STA", "IndirectY", 2, 6>>, <<"NOP", "NoneAddressing", 1, 2>>, <<"AHX", "IndirectY", 2, 6>>,
     <<"STY", "ZeroPageX", 2, 4>>, <<"STA", "ZeroPageX", 2, 4>>, <<"STX", "ZeroPageY", 2, 4>>, <<"SAX", "ZeroPageY", 2, 4>>,
     <<"TYA", "NoneAddressing", 1, 2>>, <<"STA", "AbsoluteY", 3, 5>>, <<"TXS", "NoneAddressing", 1, 2>>, <<"TAS", "AbsoluteY", 3, 5>>,
     <<"SHY", "AbsoluteX", 3, 5>>, <<"STA", "AbsoluteX", 3, 5>>, <<"SHX", "AbsoluteY", 3, 5>>, <<"AHX", "AbsoluteY", 3, 5>>,
     <<"LDY", "Immediate", 2, 2>>, <<"LDA", "IndirectX", 2, 6>>, <<"LDX", "Immediate", 2, 2>>, <<"LAX", "IndirectX", 2, 6>>,
     <<"LDY", "ZeroPage", 2, 3>>, <<"LDA", "ZeroPage", 2, 3>>, <<"LDX", "ZeroPage", 2, 3>>, <<"LAX", "ZeroPage", 2, 3>>,
     <<"TAY", "NoneAddressing", 1, 2>>, <<"LDA", "Immediate", 2, 2>>, <<"TAX", "NoneAddressing", 1, 2>>, <<"LXA", "Immediate", 2, 2>>,
     <<"LDY", "Absolute", 3, 4>>, <<"LDA", "Absolute", 3, 4>>, <<"LDX", "Absolute", 3, 4>>, <<"LAX", "Absolute", 3, 4>>,
     <<"BCS", "NoneAddressing", 2, 2>>, <<"LDA", "IndirectY", 2, 5>>, <<"NOP", "NoneAddressing", 1, 2>>, <<"LAX", "IndirectY", 2, 5>>,
     <<"LDY", "ZeroPageX", 2, 4>>, <<"LDA", "ZeroPageX", 2, 4>>, <<"LDX", "ZeroPageY", 2, 4>>, <<"LAX", "ZeroPageY", 2, 4>>,
     <<"CLV", "NoneAddressing", 1, 2>>, <<"LDA", "AbsoluteY", 3, 4>>, <<"TSX", "NoneAddressing", 1, 2>>, <<"LAS", "AbsoluteY", 3, 4>>,
     <<"LDY", "AbsoluteX", 3, 4>>, <<"LDA", "AbsoluteX", 3, 4>>, <<"LDX", "AbsoluteY", 3, 4>>, <<"LAX", "AbsoluteY", 3, 4>>,
     <<"CPY", "Immediate", 2, 2>>, <<"CMP", "IndirectX", 2, 6>>, <<"SKB", "Immediate", 2, 2>>, <<"DCP", "IndirectX", 2, 8>>,
     <<"CPY", "ZeroPage", 2, 3>>, <<"CMP", "ZeroPage", 2, 3>>, <<"DEC", "ZeroPage", 2, 5>>, <<"DCP", "ZeroPage", 2, 5>>,
     <<"INY", "NoneAddressing", 1, 2>>, <<"CMP", "Immediate", 2, 2>>, <<"DEX", "NoneAddressing", 1, 2>>, <<"AXS", "Immediate", 2, 2>>,
     <<"CPY", "Absolute", 3, 4>>, <<"CMP", "Absolute", 3, 4>>, <<"DEC", "Absolute", 3, 6>>, <<"DCP", "Absolute", 3, 6>>,
     <<"BNE", "NoneAddressing", 2, 2>>, <<"CMP", "IndirectY", 2, 5>>, <<"NOP", "NoneAddressing", 1, 2>>, <<"DCP", "IndirectY", 2, 8>>,
     <<"NOPR", "ZeroPageX", 2, 4>>, <<"CMP", "ZeroPageX", 2, 4>>, <<"DEC", "ZeroPageX", 2, 6>>, <<"DCP", "ZeroPageX", 2, 6>>,
     <<"CLD", "NoneAddressing", 1, 2>>, <<"CMP", "AbsoluteY", 3, 4>>, <<"NOP", "NoneAddressing", 1, 2>>, <<"DCP", "AbsoluteY", 3, 7>>,
     <<"NOPR", "AbsoluteX", 3, 4>>, <<"CMP", "AbsoluteX", 3, 4>>, <<"DEC", "AbsoluteX", 3, 7>>, <<"DCP", "AbsoluteX", 3, 7>>,
     <<"CPX", "Immediate", 2, 2>>, <<"SBC", "IndirectX", 2, 6>>, <<"SKB", "Immediate", 2, 2>>, <<"ISB", "IndirectX", 2, 8>>,
     <<"CPX", "ZeroPage", 2, 3>>, <<"SBC", "ZeroPage", 2, 3>>, <<"INC", "ZeroPage", 2, 5>>, <<"ISB", "ZeroPage", 2, 5>>,
     <<"INX", "NoneAddressing", 1, 2>>, <<"SBC", "Immediate", 2, 2>>, <<"NOP", "NoneAddressing", 1, 2>>, <<"SBC", "Immediate", 2, 2>>,
     <<"CPX", "Absolute", 3, 4>>, <<"SBC", "Absolute", 3, 4>>, <<"INC", "Absolute", 3, 6>>, <<"ISB", "Absolute", 3, 6>>,
     <<"BEQ", "NoneAddressing", 2, 2>>, <<"SBC", "IndirectY", 2, 5>>, <<"NOP", "NoneAddressing", 1, 2>>, <<"ISB", "IndirectY", 2, 8>>,
     <<"NOPR", "ZeroPageX", 2, 4>>, <<"SBC", "ZeroPageX", 2, 4>>, <<"INC", "ZeroPageX", 2, 6>>, <<"ISB", "ZeroPageX", 2, 6>>,
     <<"SED", "NoneAddressing", 1, 2>>, <<"SBC", "AbsoluteY", 3, 4>>, <<"NOP", "NoneAddressing", 1, 2>>, <<"ISB", "AbsoluteY", 3, 7>>,
     <<"NOPR", "AbsoluteX", 3, 4>>, <<"SBC", "AbsoluteX", 3, 4>>, <<"INC", "AbsoluteX", 3, 7>>, <<"ISB", "AbsoluteX", 3, 7>> >>

Opcode(code) ==
  LET e == OPCodes_TABLE[code + 1]
  IN  [mnemonic |-> e[1], mode |-> e[2], len |-> e[3], cycles |-> e[4]]

execute(m, code, mode) ==
  CASE code \in {\h69, \h65, \h75, \h6D,
                \h7D, \h79, \h61, \h71} -> adc(m, mode)
    [] code \in {\h29, \h25, \h35, \h2D,
                \h3D, \h39, \h21, \h31} -> and(m, mode)
    [] code \in {\h0A} -> asl_a(m)
    [] code \in {\h06, \h16, \h0E, \h1E} -> asl(m, mode)
    [] code \in {\h90} -> bcc(m)
    [] code \in {\hB0} -> bcs(m)
    [] code \in {\hF0} -> beq(m)
    [] code \in {\h24, \h2C} -> bit(m, mode)
    [] code \in {\h30} -> bmi(m)
    [] code \in {\hD0} -> bne(m)
    [] code \in {\h10} -> bpl(m)
    [] code \in {\h50} -> bvc(m)
    [] code \in {\h70} -> bvs(m)
    [] code \in {\h18} -> clc(m)
    [] code \in {\hD8} -> cld(m)
    [] code \in {\h58} -> cli(m)
    [] code \in {\hB8} -> clv(m)
    [] code \in {\hC9, \hC5, \hD5, \hCD,
                \hDD, \hD9, \hC1, \hD1} -> cmp(m, mode)
    [] code \in {\hE0, \hE4, \hEC} -> cpx(m, mode)
    [] code \in {\hC0, \hC4, \hCC} -> cpy(m, mode)
    [] code \in {\hC6, \hD6, \hCE, \hDE} -> dec(m, mode)
    [] code \in {\hCA} -> dex(m)
    [] code \in {\h88} -> dey(m)
    [] code \in {\h49, \h45, \h55, \h4D,
                \h5D, \h59, \h41, \h51} -> eor(m, mode)
    [] code \in {\hE6, \hF6, \hEE, \hFE} -> inc(m, mode)
    [] code \in {\hE8} -> inx(m)
    [] code \in {\hC8} -> iny(m)
    [] code \in {\h4C} -> jmp_abs(m)
    [] code \in {\h6C} -> jmp_ind(m)
    [] code \in {\h20} -> jsr(m)
    [] code \in {\hA9, \hA5, \hB5, \hAD,
                \hBD, \hB9, \hA1, \hB1} -> lda(m, mode)
    [] code \in {\hA2, \hA6, \hB6, \hAE, \hBE} -> ldx(m, mode)
    [] code \in {\hA0, \hA4, \hB4, \hAC, \hBC} -> ldy(m, mode)
    [] code \in {\h4A} -> lsr_a(m)
    [] code \in {\h46, \h56, \h4E, \h5E} -> lsr(m, mode)
    [] code \in {\hEA} -> nop(m)
    [] code \in {\h09, \h05, \h15, \h0D,
                \h1D, \h19, \h01, \h11} -> ora(m, mode)
    [] code \in {\h48} -> pha(m)
    [] code \in {\h08} -> php(m)
    [] code \in {\h68} -> pla(m)
    [] code \in {\h28} -> plp(m)
    [] code \in {\h2A} -> rol_a(m)
    [] code \in {\h26, \h36, \h2E, \h3E} -> rol(m, mode)
    [] code \in {\h6A} -> ror_a(m)
    [] code \in {\h66, \h76, \h6E, \h7E} -> ror(m, mode)
    [] code \in {\h40} -> rti(m)
    [] code \in {\h60} -> rts(m)
    [] code \in {\hE9, \hE5, \hF5, \hED,
                \hFD, \hF9, \hE1, \hF1} -> sbc(m, mode)
    [] code \in {\h38} -> sec(m)
    [] code \in {\hF8} -> sed(m)
    [] code \in {\h78} -> sei(m)
    [] code \in {\h85, \h95, \h8D, \h9D, \h99, \h81, \h91} -> sta(m, mode)
    [] code \in {\h86, \h96, \h8E} -> stx(m, mode)
    [] code \in {\h84, \h94, \h8C} -> sty(m, mode)
    [] code \in {\hAA} -> tax(m)
    [] code \in {\hA8} -> tay(m)
    [] code \in {\hBA} -> tsx(m)
    [] code \in {\h8A} -> txa(m)
    [] code \in {\h9A} -> txs(m)
    [] code \in {\h98} -> tya(m)
    [] code \in {\h9F} -> uahx_ay(m)
    [] code \in {\h93} -> uahx_iy(m)
    [] code \in {\h4B} -> ualr(m, mode)
    [] code \in {\h0B, \h2B} -> uanc(m, mode)
    [] code \in {\h6B} -> uarr(m, mode)
    [] code \in {\hCB} -> uaxs(m, mode)
    [] code \in {\hC7, \hD7, \hCF, \hDF, \hDB, \hD3, \hC3} -> udcp(m, mode)
    [] code \in {\hE7, \hF7, \hEF, \hFF, \hFB, \hE3, \hF3} -> uisb(m, mode)
    [] code \in {\hBB} -> ulas(m, mode)
    [] code \in {\hA7, \hB7, \hAF, \hBF, \hA3, \hB3} -> ulax(m, mode)
    [] code \in {\hAB} -> ulxa(m, mode)
    [] code \in {\h27, \h37, \h2F, \h3F, \h3B, \h33, \h23} -> urla(m, mode)
    [] code \in {\h67, \h77, \h6F, \h7F, \h7B, \h63, \h73} -> urra(m, mode)
    [] code \in {\h87, \h97, \h8F, \h83} -> usax(m, mode)
    [] code \in {\hEB} -> usbc(m, mode)
    [] code \in {\h9E} -> ushx(m)
    [] code \in {\h9C} -> ushy(m)
    [] code \in {\h80, \h82, \h89, \hC2, \hE2} -> uskb(m)
    [] code \in {\h07, \h17, \h0F, \h1F, \h1B, \h03, \h13} -> uslo(m, mode)
    [] code \in {\h47, \h57, \h4F, \h5F, \h5B, \h43, \h53} -> usre(m, mode)
    [] code \in {\h9B} -> utas(m)
    [] code \in {\h8B} -> uxaa(m, mode)
    [] code \in {\h1A, \h3A, \h5A, \h7A, \hDA, \hFA} -> unop(m)
    [] code \in {\h02, \h12, \h22, \h32, \h42, \h52,
                \h62, \h72, \h92, \hB2, \hD2, \hF2} -> unop(m)
    [] code \in {\h04, \h44, \h64, \h14, \h34, \h54, \h74, \hD4,
                \hF4, \h0C, \h1C, \h3C, \h5C, \h7C, \hDC, \hFC} -> unop_read(m, mode)


\* the tail of CPU::step after the handler returned: the operand bytes are
\* skipped unless the handler moved the program counter, the opcode's
\* cycles are added and the PPU is stepped three times per cycle
advance(m, pc_before, opcode) ==
  IF pc_before = m.register_pc
  THEN [Ovf(m, m.register_pc + (opcode.len - 1) > \hFFFF)
          EXCEPT !.register_pc = U16(@ + (opcode.len - 1))]
  ELSE m

count(m, opcode) ==
  ppu_steps([m EXCEPT !.cycles = @ + opcode.cycles], 3 * opcode.cycles)

\* CPU::step from the opcode byte on (code is in .data, pc already past it)
run(m) ==
  IF m.data = \h00 THEN m     \* /* RET */ 0x00 => return
  ELSE count(advance(execute(m, m.data, Opcode(m.data).mode),
                     m.register_pc, Opcode(m.data)),
             Opcode(m.data))

\* CPU::step
step(m) ==
  LET fetched(r) == [Ovf(r, r.register_pc + 1 > \hFFFF)
                       EXCEPT !.register_pc = U16(@ + 1)]
  IN  run(fetched(mem_read(m, m.register_pc)))
---------------------------------------------------------------------------
(* Cartridges.  An image is [len |-> PRG length, bytes |-> offset -> byte] *)
(* with RomFill everywhere else; the CPU sees offset 0 at 0x8000.          *)

\* the bytes of code placed at offset at
Placed(at, code) == [i \in at .. (at + Len(code) - 1) |-> code[i - at + 1]]

\* f and g together (their domains are disjoint)
Merge(f, g) ==
  [i \in DOMAIN f \cup DOMAIN g |-> IF i \in DOMAIN f THEN f[i] ELSE g[i]]

\* the three vectors NMI, RESET, IRQ/BRK at the end of a PRG of length len
Vectors(len, nmi, reset_, irq) ==
  Placed(len - 6, << Lo(nmi), Hi(nmi), Lo(reset_), Hi(reset_),
                     Lo(irq), Hi(irq) >>)

\* where the test images put their entry point and their handlers
ENTRY == \h8000
NMI_HANDLER == \h9000
IRQ_HANDLER == \hA000

Image(len, code) ==
  [ len |-> len,
    bytes |-> Merge(Merge(Placed(0, code),
                          Merge(Placed(NMI_HANDLER - \h8000, << \h40 >>),
                                Placed(IRQ_HANDLER - \h8000, << \h40 >>))),
                    Vectors(len, NMI_HANDLER, ENTRY, IRQ_HANDLER)) ]

\* operand bytes (lo, hi) tried with every opcode: $00FF (the last byte of
\* page zero), $2000 (PPU control), $8000 (PRG-ROM)
OperandPairs == { << \hFF, \h00 >>, << \h00, \h20 >>, << \h00, \h80 >> }

\* LDX #$01 ; LDY #$01 ; <opcode> <lo> <hi>
ScanImages ==
  { Image(\h4000, << \hA2, \h01, \hA0, \h01, code, b[1], b[2] >>) :
      code \in 0..255, b \in OperandPairs }

\* INC $0200,X ; SLO ($00,X) ; JMP $8000 -- the loop the driver runs
LoopImage ==
  Image(\h8000, << \hFE, \h00, \h02, \h03, \h00, \h4C, \h00, \h80 >>)

---------------------------------------------------------------------------
(* State *)

\* the state an operation starts from, with the operation that came before
\* it and the registers that one started from
Snapshot ==
  [cpu |-> cpu, cpu_vram |-> cpu_vram, ppu |-> ppu, ppu_ticks |-> ppu_ticks,
   op |-> [name |-> op.name, code |-> op.code], before |-> prev.cpu]

NoOp == [name |-> "new", code |-> -1, log |-> << >>]

\* CPU::new(Bus::new(..)) beside a PPU whose registers are p
Constructed(p) ==
  /\ cpu = CPU_new
  /\ cpu_vram = << >>
  /\ ppu = p
  /\ halt = "run"
  /\ op = NoOp
  /\ prev = [cpu |-> CPU_new, cpu_vram |-> << >>, ppu |-> p,
             ppu_ticks |-> 0, op |-> [name |-> "new", code |-> -1],
             before |-> CPU_new]
  /\ ppu_ticks = 0
  /\ calls = 0

\* the state the operation that produced machine r leaves behind: its
\* effects, or, when it panicked or exited, the halt alone
Becomes(r, name, code) ==
  /\ halt' = r.halt
  /\ IF r.halt = "run"
     THEN /\ cpu' = CpuOf(r)
          /\ cpu_vram' = r.cpu_vram
          /\ ppu' = r.ppu
          /\ ppu_ticks' = r.ticks
     ELSE UNCHANGED <<cpu, cpu_vram, ppu, ppu_ticks>>
  /\ op' = [name |-> name, code |-> code, log |-> r.log]
  /\ prev' = Snapshot
  /\ UNCHANGED <<rom, overflow_checks>>

---------------------------------------------------------------------------
(* A test harness driving one CPU through its public surface:              *)
(* CPU::new, then reset(), then step() and trigger_nmi() in any order.     *)

Init ==
  /\ Constructed(PPU_new)
  /\ rom \in ScanImages
  /\ overflow_checks \in BOOLEAN
  /\ loc = "new"

Reset ==
  /\ halt = "run" /\ calls < MaxCalls
  /\ loc \in {"new", "ready"}
  /\ Becomes(reset(Machine), "reset", -1)
  /\ loc' = "ready"
  /\ calls' = calls + 1

Step ==
  /\ halt = "run" /\ calls < MaxCalls
  /\ loc = "ready"
  /\ Becomes(step(Machine), "step", Bus_mem_read(cpu_vram, cpu.register_pc))
  /\ UNCHANGED loc
  /\ calls' = calls + 1

TriggerNmi ==
  /\ halt = "run" /\ calls < MaxCalls
  /\ loc = "ready"
  /\ Becomes(trigger_nmi(Machine), "nmi", -1)
  /\ UNCHANGED loc
  /\ calls' = calls + 1

Next == Reset \/ Step \/ TriggerNmi

Spec == Init /\ [][Next]_vars


---------------------------------------------------------------------------
(* The same harness over short programs: control flow, the stack and the   *)
(* bus ranges between the PPU registers and PRG-ROM.                       *)

\* the bytes of code as the CPU sees them from address addr on (32K PRG)
CodeAt(addr, code) == Placed(addr - \h8000, code)

\* a 32K cartridge whose reset vector is reset_: main starts at reset_ and
\* sub at address at
Program(reset_, main, at, sub) ==
  [ len |-> \h8000,
    bytes |-> Merge(Merge(CodeAt(reset_, main), CodeAt(at, sub)),
                    Merge(Merge(CodeAt(NMI_HANDLER, << \h40 >>),
                                CodeAt(IRQ_HANDLER, << \h40 >>)),
                          Vectors(\h8000, NMI_HANDLER, reset_,
                                  IRQ_HANDLER))) ]

\* BPL BMI BVC BVS BCC BCS BNE BEQ
Branches == { \h10, \h30, \h50, \h70, \h90, \hB0, \hD0, \hF0 }

\* displacement bytes: 0, +4, +127, -128, -2, -1
Displacements == { \h00, \h04, \h7F, \h80, \hFE, \hFF }

\* where a branch is put: the start of PRG, three bytes before a page
\* end, the last two bytes of the address space
BranchAt == { ENTRY, \h80FD, \hFFFE }

\* <branch> d on the flags reset() leaves (N V Z C clear), and
\* LDA #$FF ; PHA ; PLP ; <branch> d (N V Z C set)
BranchPrograms ==
  { Program(a, << b, d >>, ENTRY, << >>) :
      a \in BranchAt, b \in Branches, d \in Displacements }
  \cup
  { Program(ENTRY, << \hA9, \hFF, \h48, \h28, b, d >>, ENTRY, << >>) :
      b \in Branches, d \in Displacements }

\* jump targets: the instruction's own first operand byte, the instruction
\* itself, the byte after a 3-byte instruction, both ends of the address
\* space, a handler
Targets == { \h8001, \h8000, \h8003, \h0000, \hFFFF, NMI_HANDLER }

\* JMP t ; JSR t ; JMP ($8003) with t stored at $8003
JumpPrograms ==
  { Program(ENTRY, << j, Lo(t), Hi(t) >>, ENTRY, << >>) :
      j \in { \h4C, \h20 }, t \in Targets }
  \cup
  { Program(ENTRY, << \h6C, \h03, \h80, Lo(t), Hi(t) >>, ENTRY, << >>) :
      t \in Targets }

\* the stack pointers and the bytes the stack programs are run with
StackPointers == { \h00, \h01, \h80, \hFD, \hFF }

\* LDX #s ; TXS ; JSR $8010 and, at $8010, RTS
CallPrograms ==
  { Program(ENTRY, << \hA2, s, \h9A, \h20, \h10, \h80 >>, \h8010, << \h60 >>) :
      s \in StackPointers }

\* JSR $8000 at $BEED (pushing $BEEF) and, at $8000, LDA #p ; PHA ; RTI
ReturnPrograms ==
  { Program(\hBEED, << \h20, \h00, \h80 >>, ENTRY, << \hA9, p, \h48, \h40 >>) :
      p \in { \hF5, \h00, \h10, \hFF } }

\* <setup> ; PHP ; PLP, the setup being: nothing; CLI; SEC SED;
\* LDA #$FF; LDA #$00 SEC; LDA #$7F ADC #$7F; LDX #s TXS
FlagPrograms ==
  { Program(ENTRY, setup \o << \h08, \h28 >>, ENTRY, << >>) :
      setup \in { << >>, << \h58 >>, << \h38, \hF8 >>, << \hA9, \hFF >>,
                  << \hA9, \h00, \h38 >>, << \hA9, \h7F, \h69, \h7F >>,
                  << \hA2, \h00, \h9A >>, << \hA2, \hFF, \h9A >> } }

\* TXS ; LDA #v ; PHA ; PLA (SP = X = 0), LXA #v ; TXS ; PHA ; PLA
\* (A = X = SP = v) and LDA #v ; PHA ; PLA (SP as reset() leaves it)
StackPrograms ==
  { Program(ENTRY, << \h9A, \hA9, v, \h48, \h68 >>, ENTRY, << >>) :
      v \in StackPointers }
  \cup
  { Program(ENTRY, << \hAB, v, \h9A, \h48, \h68 >>, ENTRY, << >>) :
      v \in StackPointers }
  \cup
  { Program(ENTRY, << \hA9, v, \h48, \h68 >>, ENTRY, << >>) :
      v \in StackPointers }

\* addresses between the PPU registers and PRG-ROM
IoAddresses ==
  { \h4000, \h4017, \h5000, \h6000, \h6001, \h6004, \h7000, \h7FFF }

\* STA a with A = 0 as reset() leaves it, and LDA #d ; STA a
WritePrograms ==
  { Program(ENTRY, << \h8D, Lo(a), Hi(a) >>, ENTRY, << >>) :
      a \in IoAddresses }
  \cup
  { Program(ENTRY, << \hA9, d, \h8D, Lo(a), Hi(a) >>, ENTRY, << >>) :
      a \in IoAddresses, d \in { \h01, \h41, \h80 } }

\* RAM addresses: both ends of the 2K, the first mirror, one inside the
\* third mirror, the end of the last
RamAddresses == { \h0000, \h07FF, \h0800, \h1234, \h1FFF }

\* the mirror of RAM address a in the k-th 2K
Mirror(a, k) == BitAnd(a, \h07FF) + k * \h0800

\* LDA #b ; STA a ; LDX <a mirror of a>
RamPrograms ==
  { Program(ENTRY, << \hA9, b, \h8D, Lo(a), Hi(a),
                      \hAE, Lo(Mirror(a, k)), Hi(Mirror(a, k)) >>,
            ENTRY, << >>) :
      b \in { \h01, \hFF }, a \in RamAddresses, k \in 0..3 }

\* LDX a ; LDY a + $4000, on a 16K cartridge (where the second address
\* mirrors the first) and on a 32K one, with the byte 0x5A at $8006
PrgPrograms ==
  { Image(n, << \hAE, Lo(a), Hi(a),
                \hAC, Lo(a + \h4000), Hi(a + \h4000), \h5A >>) :
      n \in { \h4000, \h8000 }, a \in { \h8000, \h8006, \h9000, \hBFFF } }

\* operands of the additions and subtractions: both ends, both sides of
\* the sign change, and the bytes of the two overflow examples
ArithBytes ==
  { \h00, \h01, \h0F, \h50, \h60, \h7F, \h80, \hA0, \hF0, \hFF }

\* CLC or SEC
CarryOps == { \h18, \h38 }

\* ADC #, SBC # and the unofficial SBC #
ArithOps == { \h69, \hE9, \hEB }

\* <CLC|SEC> ; LDA #a ; <ADC|SBC|*SBC> #m, and with the operand in the
\* zero page: LDA #m ; STA $10 ; LDA #a ; <ADC|SBC> $10
ArithPrograms ==
  { Program(ENTRY, << c, \hA9, a, o, m >>, ENTRY, << >>) :
      c \in CarryOps, a \in ArithBytes, o \in ArithOps, m \in ArithBytes }
  \cup
  { Program(ENTRY, << \hA9, m, \h85, \h10, \hA9, a, o, \h10 >>,
            ENTRY, << >>) :
      a \in { \h50, \hF0, \hFF }, o \in { \h65, \hE5 },
      m \in { \h50, \hF0, \hFF } }
  \cup
  \* LDA #r ; CMP #m, LDX #r ; CPX #m, LDY #r ; CPY #m
  { Program(ENTRY, << l[1], r, l[2], m >>, ENTRY, << >>) :
      l \in { << \hA9, \hC9 >>, << \hA2, \hE0 >>, << \hA0, \hC0 >> },
      r \in ArithBytes, m \in ArithBytes }
  \cup
  \* LDA #m ; STA $10 ; LDX #r ; CPX $10, and the same with CMP and CPY
  { Program(ENTRY, << \hA9, m, \h85, \h10, l[1], r, l[2], \h10 >>,
            ENTRY, << >>) :
      l \in { << \hA9, \hC5 >>, << \hA2, \hE4 >>, << \hA0, \hC4 >> },
      r \in { \h00, \h7F, \h80 }, m \in { \h01, \h80 } }

\* (zp),Y opcodes: ORA AND EOR ADC LDA CMP SBC, LAX, STA, SLO
IndirectYOps ==
  { \h11, \h31, \h51, \h71, \hB1, \hD1, \hF1, \hB3, \h91, \h13 }

\* abs,X and abs,Y opcodes: LDA LDY LDX, the unofficial NOP, STA, INC
IndexedOps == { \hBD, \hBC, \hB9, \hBE, \h1C, \hFC, \h9D, \h99, \hFE }

\* DEC $10 ; LDY #y ; <op> ($10),Y: the pointer at $10 is $00FF, so that
\* y = 1 takes the address into page one and y = 0 does not; and
\* LDX #i ; LDY #i ; <op> $02FF indexed, where i = 1 leaves page two
CrossPrograms ==
  { Program(ENTRY, << \hC6, \h10, \hA0, y, o, \h10 >>, ENTRY, << >>) :
      y \in { \h00, \h01 }, o \in IndirectYOps }
  \cup
  { Program(ENTRY, << \hA2, i, \hA0, i, o, \hFF, \h02 >>, ENTRY, << >>) :
      i \in { \h00, \h01 }, o \in IndexedOps }

\* JMP ($80FF) at $8100 with the low byte b at $80FF (the byte after it,
\* at $8100, is the JMP opcode itself and the byte at $8000 is the fill);
\* JMP (p) for pointers at the end of the address space; and
\* LDA #$80 ; STA a ; JMP ($02FF) with a = $0200 (the same page) or
\* $0300 (the next page), the rest of RAM being zero
IndirectPrograms ==
  { Program(\h8100, << \h6C, \hFF, \h80 >>, \h80FF, << b >>) :
      b \in { \h00, \h10, \hFF } }
  \cup
  { Program(ENTRY, << \h6C, Lo(p), Hi(p) >>, ENTRY, << >>) :
      p \in { \hFFFF, \hFFFE, \hFFFA, \h80FE, \h00FF } }
  \cup
  { Program(ENTRY, << \hA9, \h80, \h8D, Lo(a), Hi(a), \h6C, \hFF, \h02 >>,
            ENTRY, << >>) :
      a \in { \h0200, \h0300, \h02FF } }

\* zp,X zp,Y (zp,X) and (zp),Y opcodes: LDA STA INC zp,X ; LDX STX zp,Y ;
\* LDA STA (zp,X) ; LDA STA AHX (zp),Y
ZeroPageOps ==
  { \hB5, \h95, \hF6, \hB6, \h96, \hA1, \h81, \hB1, \h91, \h93 }

\* LDX #i ; LDY #i ; <op> z, where z + i passes the end of page zero, or
\* reaches it so that the second pointer byte is the one after $FF
ZeroPagePrograms ==
  { Program(ENTRY, << \hA2, z[2], \hA0, z[2], o, z[1] >>, ENTRY, << >>) :
      o \in ZeroPageOps,
      z \in { << \hFE, \h01 >>, << \hFF, \h01 >>, << \hFF, \h00 >>,
              << \h80, \hFF >>, << \h10, \h02 >> } }

Programs ==
  BranchPrograms \cup JumpPrograms \cup CallPrograms \cup ReturnPrograms
    \cup FlagPrograms \cup StackPrograms \cup WritePrograms
    \cup RamPrograms \cup PrgPrograms \cup CrossPrograms
    \cup IndirectPrograms \cup ZeroPagePrograms

InitPrograms ==
  /\ Constructed(PPU_new)
  /\ rom \in Programs
  /\ overflow_checks \in BOOLEAN
  /\ loc = "new"

SpecPrograms == InitPrograms /\ [][Next]_vars

InitArith ==
  /\ Constructed(PPU_new)
  /\ rom \in ArithPrograms
  /\ overflow_checks \in BOOLEAN
  /\ loc = "new"

SpecArith == InitArith /\ [][Next]_vars

\* SLO RLA SRE RRA DCP ISB on a zero-page operand, and on abs,X
CombinedOps == { \h07, \h27, \h47, \h67, \hC7, \hE7 }
CombinedOpsX == { \h1F, \h3F, \h5F, \h7F, \hDF, \hFF }

\* LDA #m ; STA $10 ; ADC #k ; <op> $10: the operand holds m, A is m + k
\* and the carry is the one of that addition; and
\* LDX #$01 ; LDA #m ; STA $0300 ; <op> $02FF,X with A = m
CombinedPrograms ==
  { Program(ENTRY, << \hA9, m, \h85, \h10, \h69, k, o, \h10 >>,
            ENTRY, << >>) :
      o \in CombinedOps, m \in { \h00, \h01, \h55, \h80, \hFF },
      k \in { \h00, \h01, \h80, \hFF } }
  \cup
  { Program(ENTRY, << \hA2, \h01, \hA9, m, \h8D, \h00, \h03, o, \hFF, \h02 >>,
            ENTRY, << >>) :
      o \in CombinedOpsX, m \in { \h00, \h01, \h80, \hFF } }

InitCombined ==
  /\ Constructed(PPU_new)
  /\ rom \in CombinedPrograms
  /\ overflow_checks \in BOOLEAN
  /\ loc = "new"

SpecCombined == InitCombined /\ [][Next]_vars

\* ROL A then ROR A, and ROR A then ROL A
RotatePairs == { << \h2A, \h6A >>, << \h6A, \h2A >> }

\* <CLC|SEC> ; LDA #a ; <ROL A ; ROR A | ROR A ; ROL A>, for every byte a
RotatePrograms ==
  { Program(ENTRY, << c, \hA9, a, r[1], r[2] >>, ENTRY, << >>) :
      c \in CarryOps, a \in 0..255, r \in RotatePairs }

InitRotate ==
  /\ Constructed(PPU_new)
  /\ rom \in RotatePrograms
  /\ overflow_checks \in BOOLEAN
  /\ loc = "new"

SpecRotate == InitRotate /\ [][Next]_vars

---------------------------------------------------------------------------
(* The driver loop (main.rs).  loc is the statement about to run:          *)
(*   "new"     cpu.reset()                                  (line 62)      *)
(*   "events"  the top of loop { }: poll the window events  (lines 68-78)  *)
(*   "while"   the test of the inner while                  (line 85)      *)
(*   "step"    cpu.step()                                   (line 86)      *)
(*   "check"   if cpu.bus.ppu.borrow().nmi_triggered        (line 87)      *)
(*   "nmi"     cpu.trigger_nmi()                            (line 88)      *)
(*   "clear"   nmi_triggered = false                        (line 89)      *)
(*   "present" the new frame is shown, then the sleep       (lines 94-105) *)
(* The frame deadline is the clock's: the inner loop may be left at any    *)
(* test.  The loop is followed until MaxFrames frames have been shown.     *)

\* the loop's line 89 left out
clear_nmi_skipped(p) == p

\* cpu.bus.ppu.borrow_mut().nmi_triggered = false
clear_nmi(p) == [p EXCEPT !.nmi_triggered = FALSE]

\* ppu.borrow_mut().is_new_frame = false
clear_new_frame(p) == [p EXCEPT !.is_new_frame = FALSE]

\* the statement at loc moves to next and touches nothing but the PPU
Goes(next, p) ==
  /\ halt = "run"
  /\ loc' = next
  /\ ppu' = p
  /\ UNCHANGED <<cpu, cpu_vram, rom, overflow_checks, halt, op, prev,
                 ppu_ticks, calls>>

\* PPUCTRL values the PPU is handed to the loop with: PPU::new() leaves 0,
\* 0x80 (NMI enabled) is what PPU::write_register(0x2000, 0x80) leaves
ControlBytes == { \h00, \h80 }

InitDriver ==
  /\ \E data \in ControlBytes :
        Constructed(PPU_write_register(PPU_new, \h2000, data))
  /\ rom = LoopImage
  /\ overflow_checks \in BOOLEAN
  /\ loc = "new"

MainReset ==
  /\ halt = "run" /\ loc = "new"
  /\ Becomes(reset(Machine), "reset", -1)
  /\ loc' = "events"
  /\ UNCHANGED calls

\* no event, or one the loop ignores
MainEvents == loc = "events" /\ ppu.frame < MaxFrames /\ Goes("while", ppu)

\* Event::Quit or Escape: ::std::process::exit(0)
MainQuit ==
  /\ halt = "run" /\ loc = "events"
  /\ halt' = "exit"
  /\ UNCHANGED <<cpu, cpu_vram, ppu, rom, overflow_checks, loc, op, prev,
                 ppu_ticks, calls>>

MainWhileEnter ==
  loc = "while" /\ ~ppu.is_new_frame /\ Goes("step", ppu)

\* a new frame is ready, or the deadline has passed
MainWhileLeave == loc = "while" /\ Goes("present", ppu)

MainStep ==
  /\ halt = "run" /\ loc = "step"
  /\ Becomes(step(Machine), "step", Bus_mem_read(cpu_vram, cpu.register_pc))
  /\ loc' = "check"
  /\ UNCHANGED calls

MainCheckNmi ==
  /\ loc = "check"
  /\ Goes(IF ppu.nmi_triggered THEN "nmi" ELSE "while", ppu)

MainTriggerNmi ==
  /\ halt = "run" /\ loc = "nmi"
  /\ Becomes(trigger_nmi(Machine), "nmi", -1)
  /\ loc' = "clear"
  /\ UNCHANGED calls

MainClearNmi == loc = "clear" /\ Goes("while", clear_nmi(ppu))

MainPresent ==
  /\ loc = "present"
  /\ Goes("events", IF ppu.is_new_frame THEN clear_new_frame(ppu) ELSE ppu)

NextDriver ==
  \/ MainReset \/ MainEvents \/ MainQuit \/ MainWhileEnter \/ MainWhileLeave
  \/ MainStep \/ MainCheckNmi \/ MainTriggerNmi \/ MainClearNmi
  \/ MainPresent

SpecDriver == InitDriver /\ [][NextDriver]_vars

---------------------------------------------------------------------------
(* The PPU on its own, one PPU::step() call at a time, beside the one      *)
(* statement outside ppu.rs that writes a PPU flag (main.rs line 89).      *)
(* It is followed through MaxFrames frames and the pre-render line after.  *)

InitPpu ==
  /\ \E data \in ControlBytes :
        Constructed(PPU_write_register(PPU_new, \h2000, data))
  /\ rom = LoopImage
  /\ overflow_checks = FALSE   \* no addition of PPU::step overflows here
  /\ loc = "ppu"

\* the PPU goes to p by the operation name; the CPU and the bus stand still
Ticks(p, name) ==
  /\ loc = "ppu"
  /\ ppu' = p
  /\ op' = [name |-> name, code |-> -1, log |-> << >>]
  /\ prev' = [prev EXCEPT !.ppu = ppu]
  /\ UNCHANGED <<cpu, cpu_vram, rom, overflow_checks, halt, loc, calls>>

\* ppu.step()
PpuStep ==
  /\ ppu.frame < MaxFrames \/ ppu.scanline = -1
  /\ Ticks(PPU_step(ppu), "tick")
  /\ ppu_ticks' = ppu_ticks + 1

\* cpu.bus.ppu.borrow_mut().nmi_triggered = false
PpuClearNmi ==
  /\ ppu.nmi_triggered
  /\ Ticks(clear_nmi(ppu), "clear")
  /\ UNCHANGED ppu_ticks

NextPpu == PpuStep \/ PpuClearNmi

SpecPpu == InitPpu /\ [][NextPpu]_vars

\* the frames the PPU is followed through when it is stepped for ever
LiveFrames == 2

\* n calls of PPU::step(), the first half of them made before the second
\* half is looked at (cycles is never negative)
RECURSIVE PPU_steps(_, _)
PPU_steps(p, n) ==
  IF n = 1 THEN PPU_step(p)
  ELSE LET half == PPU_steps(p, n \div 2)
       IN  IF half.cycles >= 0 THEN PPU_steps(half, n - n \div 2) ELSE half

InitPpuLive ==
  /\ Constructed(PPU_new)
  /\ rom = LoopImage
  /\ overflow_checks = FALSE
  /\ loc = "ppu"

\* the PPU is followed to the first scanline of the frame after the last
Running == ppu.frame < LiveFrames \/ ppu.scanline = -1

\* one PPU::step() call, at the start of a scanline (into cycle 1 and
\* into cycle 2)
PpuRun ==
  /\ Running
  /\ ppu.cycles < 2
  /\ Ticks(PPU_step(ppu), "tick")
  /\ ppu_ticks' = ppu_ticks + 1

\* the PPU::step() calls of the rest of the scanline, from cycle 2 to
\* cycle 0 of the next
PpuRunLine ==
  /\ Running
  /\ ppu.cycles = 2
  /\ Ticks(PPU_steps(ppu, 339), "line")
  /\ ppu_ticks' = ppu_ticks + 339

\* the frame is shown: ppu.borrow_mut().is_new_frame = false
PpuPresent ==
  /\ ppu.is_new_frame
  /\ Ticks(clear_new_frame(ppu), "present")
  /\ UNCHANGED ppu_ticks

NextPpuLive == PpuRun \/ PpuRunLine \/ PpuPresent

\* step() is called again and again, and a frame that is ready is shown:
\* weak fairness of the three actions. A stepping action always advances
\* ppu_ticks, so ENABLED <<A>>_vars is its guard, and WF_vars(A) is written
\* with the guard in the place of ENABLED
SpecPpuLive ==
  /\ InitPpuLive /\ [][NextPpuLive]_vars
  /\ ([]<>~(Running /\ ppu.cycles < 2) \/ []<><<PpuRun>>_vars)
  /\ ([]<>~(Running /\ ppu.cycles = 2) \/ []<><<PpuRunLine>>_vars)
  /\ WF_vars(PpuPresent)

---------------------------------------------------------------------------
(* Properties.  op is the last operation ("reset", "step" with the opcode  *)
(* it fetched, or "nmi") with the log of its bus accesses and add_cycle()  *)
(* calls; prev is the state it started from.                               *)

Done(name) == halt = "run" /\ op.name = name

\* the entries of a log that are of kind k
Of(log, k) == SelectSeq(log, LAMBDA e : e.k = k)

\* the byte in the stack page that register_sp = sp points at
StackByte(sp) == RamByte(cpu_vram, STACK + sp)

\* the little-endian word a vector holds
VectorAt(addr) ==
  Word(Bus_mem_read(cpu_vram, addr + 1), Bus_mem_read(cpu_vram, addr))

\* C1: every step() and every trigger_nmi() makes exactly three PPU::step()
\* calls for each cycle it adds to cycles, and so between operations after
\* reset() the PPU::step() calls made since reset are 3 x cycles.
C1_ThreeTicksPerCycle ==
  /\ (Done("step") \/ Done("nmi")) =>
       ppu_ticks - prev.ppu_ticks = 3 * (cpu.cycles - prev.cpu.cycles)
  /\ (halt = "run" /\ loc = "ready") => ppu_ticks = 3 * cpu.cycles

\* a step that took the page-crossing cycle, after earlier instructions
C1_Witness ==
  /\ Done("step")
  /\ Len(Of(op.log, "T")) = 1
  /\ prev.cpu.cycles > 0
  /\ cpu.cycles > prev.cpu.cycles + 1
  /\ ppu_ticks = 3 * cpu.cycles

\* C2: one step() adds at least the opcode's base cycle cost to cycles,
\* never zero, for every opcode; cycles never decreases across step() and
\* trigger_nmi().
C2_StepAddsBaseCost ==
  /\ Done("step") =>
       /\ cpu.cycles - prev.cpu.cycles >= Opcode(op.code).cycles
       /\ cpu.cycles - prev.cpu.cycles > 0
  /\ (Done("step") \/ Done("nmi")) => cpu.cycles >= prev.cpu.cycles

\* C3: within one step() no PPU step comes before a memory access of the
\* instruction: in the log no read or write follows an add_cycle().
C3_AccessesBeforeTicks ==
  Done("step") =>
    \A i, j \in 1..Len(op.log) :
      (i < j /\ op.log[i].k = "T") => op.log[j].k = "T"

\* C4: in the driver loop no opcode is fetched while the NMI request is
\* set: the flag is looked at only after step() returned, trigger_nmi()
\* runs on a set flag before the next fetch and the flag is cleared after.
C4_NoFetchWhileNmiRequested ==
  /\ loc \in {"events", "while", "step", "present"} => ~ppu.nmi_triggered
  /\ loc = "check" => op.name = "step"
  /\ loc = "nmi" => (ppu.nmi_triggered /\ op.name = "step")
  /\ loc = "clear" => op.name = "nmi"

\* the first fetch after an NMI was taken: the handler's, the flag cleared
C4_Witness ==
  /\ loc = "step"
  /\ op.name = "nmi"
  /\ cpu.register_pc = NMI_HANDLER
  /\ ~ppu.nmi_triggered
  /\ BitAnd(ppu.status, \h80) # 0

\* the PPU register behind the bus address a, for the registers whose
\* value PPU::step leaves alone: 0 control, 1 mask, 3 oam_addr
RegisterOf(p, a) ==
  CASE BitAnd(a, 7) = 0 -> p.control
    [] BitAnd(a, 7) = 1 -> p.mask
    [] OTHER -> p.oam_addr

\* C5: a CPU write to 0x2000-0x3FFF reaches the PPU as
\* write_register(0x2000 | (addr & 7), data) and a CPU read there returns
\* read_register(0x2000 | (addr & 7)) (stated for control, mask, oam_addr).
C5_PpuRegistersOnTheBus ==
  Done("step") =>
    \A i \in 1..Len(op.log) :
      (op.log[i].a >= \h2000 /\ op.log[i].a <= \h3FFF
         /\ BitAnd(op.log[i].a, 7) \in {0, 1, 3}) =>
        /\ op.log[i].k = "R" =>
             /\ op.log[i].d = RegisterOf(prev.ppu, op.log[i].a)
             /\ op.log[i].d =
                  PPU_read_register(prev.ppu,
                                    \h2000 + BitAnd(op.log[i].a, 7))
        /\ op.log[i].k = "W" =>
             /\ RegisterOf(ppu, op.log[i].a) = op.log[i].d
             /\ RegisterOf(ppu, op.log[i].a) =
                  RegisterOf(PPU_write_register(prev.ppu, op.log[i].a,
                                                op.log[i].d),
                             op.log[i].a)

\* C6: trigger_nmi() pushes PC (high byte at 0x0100+SP, low byte below it)
\* and then one status byte, leaves SP three lower (mod 256), sets I, loads
\* PC from the word at 0xFFFA/0xFFFB and adds exactly 7 cycles and 21 PPU
\* steps.
C6_NmiEntry ==
  Done("nmi") =>
    /\ Len(Of(op.log, "W")) = 3
    /\ Of(op.log, "W")[1].a = STACK + prev.cpu.register_sp
    /\ Of(op.log, "W")[1].d = Hi(prev.cpu.register_pc)
    /\ Of(op.log, "W")[2].a = STACK + U8(prev.cpu.register_sp + 255)
    /\ Of(op.log, "W")[2].d = Lo(prev.cpu.register_pc)
    /\ Of(op.log, "W")[3].a = STACK + U8(prev.cpu.register_sp + 254)
    /\ StackByte(prev.cpu.register_sp) = Hi(prev.cpu.register_pc)
    /\ StackByte(U8(prev.cpu.register_sp + 255)) = Lo(prev.cpu.register_pc)
    /\ cpu.register_sp = U8(prev.cpu.register_sp + 253)
    /\ get_bit(cpu.flags, INT)
    /\ cpu.register_pc = VectorAt(\hFFFA)
    /\ cpu.cycles = prev.cpu.cycles + 7
    /\ ppu_ticks = prev.ppu_ticks + 21

\* an NMI taken right after reset: PC = 0x8000 and SP = 0xFD before,
\* PC = the vector and SP = 0xFA after, 0x80 and 0x00 on the stack
C6_Witness ==
  /\ Done("nmi")
  /\ prev.cpu.register_pc = \h8000
  /\ prev.cpu.register_sp = \hFD
  /\ cpu.register_sp = \hFA
  /\ cpu.register_pc = NMI_HANDLER
  /\ StackByte(\hFD) = \h80
  /\ StackByte(\hFC) = \h00
  /\ get_bit(cpu.flags, INT)
  /\ cpu.cycles = 7

\* C7: the status byte trigger_nmi() pushes is P with bit 4 (B) cleared and
\* bit 5 (U) set, every other bit of P as it was.
C7_NmiStatusByte ==
  Done("nmi") =>
    StackByte(U8(prev.cpu.register_sp + 254)) =
      BitOr(BitAnd(prev.cpu.flags, \hEF), \h20)

\* C8: opcode 0x00 (BRK) through step() pushes the return PC high byte
\* first, pushes P with B and U set, sets I and loads PC from the word at
\* 0xFFFE/0xFFFF.
C8_BrkThroughStep ==
  (Done("step") /\ op.code = \h00) =>
    /\ Len(Of(op.log, "W")) = 3
    /\ cpu.register_sp = U8(prev.cpu.register_sp + 253)
    /\ StackByte(prev.cpu.register_sp) = Hi(prev.cpu.register_pc + 2)
    /\ StackByte(U8(prev.cpu.register_sp + 255)) = Lo(prev.cpu.register_pc + 2)
    /\ BitAnd(StackByte(U8(prev.cpu.register_sp + 254)), \h30) = \h30
    /\ get_bit(cpu.flags, INT)
    /\ cpu.register_pc = VectorAt(\hFFFE)

\* C9: reset() sets A = X = Y = 0, SP = 0xFD, P = 0x24, cycles = 0 and PC to
\* the little-endian word at 0xFFFC/0xFFFD, whatever the state before, and
\* changes no memory.
C9_ResetPostcondition ==
  Done("reset") =>
    /\ cpu.register_a = 0 /\ cpu.register_x = 0 /\ cpu.register_y = 0
    /\ cpu.register_sp = \hFD
    /\ cpu.flags = \h24
    /\ cpu.cycles = 0
    /\ cpu.register_pc = VectorAt(\hFFFC)
    /\ Of(op.log, "W") = << >>
    /\ cpu_vram = prev.cpu_vram
    /\ ppu = prev.ppu

\* a reset of a CPU that has run: registers, stack and cycles had moved
C9_Witness ==
  /\ Done("reset")
  /\ prev.cpu.cycles > 0
  /\ prev.cpu.register_sp # \hFD
  /\ prev.cpu.register_x # 0
  /\ prev.cpu.register_pc # \h8000
  /\ prev.cpu_vram # << >>
  /\ cpu.register_pc = \h8000

\* C10: a CPU write to 0x8000-0xFFFF does not abort: it is ignored, leaves
\* RAM, registers and PPU registers as they were and execution goes on.
C10_RomWriteIgnored ==
  (op.name = "step"
     /\ \E i \in 1..Len(op.log) :
          op.log[i].k = "W" /\ op.log[i].a >= \h8000) =>
    /\ halt = "run"
    /\ cpu_vram = prev.cpu_vram
    /\ ppu.control = prev.ppu.control

\* the bus accesses of kind k that the last operation made at a..b
Accesses(k, a, b) ==
  { i \in 1..Len(op.log) :
      op.log[i].k = k /\ op.log[i].a >= a /\ op.log[i].a <= b }

\* C11: a CPU write of any byte to any address in 0x4000-0x7FFF returns
\* normally and changes no RAM byte, no register the instruction does not
\* itself set and no PPU register, so that stepping can go on after it.
C11_IoWriteIgnored ==
  (op.name = "step" /\ Accesses("W", \h4000, \h7FFF) # {}) =>
    /\ halt = "run"
    /\ cpu_vram = prev.cpu_vram
    /\ ppu.control = prev.ppu.control
    /\ cpu.register_sp = prev.cpu.register_sp

\* C12: after reset(), through every step() and trigger_nmi(), SP stays in
\* 0x00..0xFF and PC in 0x0000..0xFFFF, and the PC computations wrap
\* modulo 65536 instead of faulting: a step() that fetches its opcode at
\* 0xFFFF, or skips an operand byte at 0xFFFF, returns with PC wrapped.
C12_PcAndSpWrap ==
  /\ cpu.register_sp \in 0..\hFF
  /\ cpu.register_pc \in 0..\hFFFF
  /\ (op.name = "step" /\ prev.cpu.register_pc = \hFFFF) =>
       (halt = "run" /\ cpu.register_pc < \h8000)
  /\ (op.name = "step" /\ prev.cpu.register_pc = \hFFFE
        /\ op.code \in Branches
        /\ Len(op.log) = 1) =>
       (halt = "run" /\ cpu.register_pc = 0)

\* C13: bit 5 (U) of the status register is 1 in every state reached from
\* reset() by step() and trigger_nmi() calls, also after PLP or RTI popped
\* a stack byte whose bit 5 is 0.
C13_UnusedFlagSet ==
  (halt = "run" /\ loc = "ready") => get_bit(cpu.flags, UFLAG)

\* PLP that popped 0x00 from a stack nothing was pushed on: P = 0x20
C13_Witness ==
  /\ Done("step")
  /\ op.code = \h28
  /\ Len(op.log) = 2
  /\ op.log[2].k = "R" /\ op.log[2].a = STACK + \hFE
  /\ ~get_bit(op.log[2].d, UFLAG)
  /\ cpu.flags = \h20

\* whether the branch opcode code is taken under the status byte bits
Taken(code, bits) ==
  CASE code = \h10 -> ~get_bit(bits, NEGATIVE)
    [] code = \h30 -> get_bit(bits, NEGATIVE)
    [] code = \h50 -> ~get_bit(bits, OVERFLOW)
    [] code = \h70 -> get_bit(bits, OVERFLOW)
    [] code = \h90 -> ~get_bit(bits, CARRY)
    [] code = \hB0 -> get_bit(bits, CARRY)
    [] code = \hD0 -> ~get_bit(bits, ZERO)
    [] OTHER -> get_bit(bits, ZERO)

\* the last operation was a step() that ran a branch to its end
Branched == Done("step") /\ op.code \in Branches

\* the address just after the branch's operand byte and its displacement
AfterOperand == U16(prev.cpu.register_pc + 2)
Displacement ==
  I8(Bus_mem_read(prev.cpu_vram, U16(prev.cpu.register_pc + 1)))

\* C14: after a taken branch PC = (address just after the operand byte +
\* d) mod 65536 for every signed displacement d in -128..127; after a
\* branch whose condition is false PC = the address just after the operand.
C14_BranchTarget ==
  Branched =>
    cpu.register_pc =
      IF Taken(op.code, prev.cpu.flags)
      THEN U16(AfterOperand + Displacement + 65536)
      ELSE AfterOperand

\* the cycles the last step() added
Cost == cpu.cycles - prev.cpu.cycles

\* C15: a branch whose condition is false costs its base cycles; a taken
\* branch costs one cycle more, and a further one when the target is in
\* another page than the address just after the operand (BNE +4 at $80FD,
\* taken: PC = $8103, 4 cycles).
C15_BranchCost ==
  Branched =>
    Cost = Opcode(op.code).cycles
             + (IF Taken(op.code, prev.cpu.flags)
                THEN 1 + (IF PageOf(cpu.register_pc) # PageOf(AfterOperand)
                          THEN 1 ELSE 0)
                ELSE 0)

\* the little-endian word the cartridge and RAM held at addr before the
\* last operation
WordAt(addr) ==
  Word(Bus_mem_read(prev.cpu_vram, U16(addr + 1)),
       Bus_mem_read(prev.cpu_vram, addr))

\* the target of the JMP or JSR at prev's PC: the operand word, read
\* through once more for JMP indirect
Target ==
  IF op.code = \h6C
  THEN WordAt(WordAt(U16(prev.cpu.register_pc + 1)))
  ELSE WordAt(U16(prev.cpu.register_pc + 1))

\* C16: after JMP absolute, JMP indirect and JSR, PC is the target address
\* the handler assigned, for every 16-bit target, also when the target is
\* the address of the instruction's own first operand byte.
C16_JumpTarget ==
  (Done("step") /\ op.code \in { \h4C, \h6C, \h20 }) =>
    cpu.register_pc = Target

\* the last two operations were step()s that ran opcode first and then
\* opcode second, the second where the first left PC
Pair(first, second) ==
  /\ Done("step") /\ op.code = second
  /\ prev.op.name = "step" /\ prev.op.code = first

\* C17: after JSR addr and then the RTS at addr, PC is the address of the
\* byte after the 3-byte JSR and SP is what it was before the JSR, for
\* every SP the JSR starts with (also where the pushes wrap below 0x00).
C17_JsrRtsRoundTrip ==
  Pair(\h20, \h60) =>
    /\ cpu.register_pc = U16(prev.before.register_pc + 3)
    /\ cpu.register_sp = prev.before.register_sp
    /\ prev.cpu.register_sp = U8(prev.before.register_sp + 254)

\* JSR at $8003 with SP = 0x00: the pushes went to $0100 and $01FF, the
\* RTS came back to $8006 with SP = 0x00
C17_Witness ==
  /\ Pair(\h20, \h60)
  /\ prev.before.register_sp = \h00
  /\ prev.before.register_pc = \h8003
  /\ prev.cpu.register_sp = \hFE
  /\ prev.cpu.register_pc = \h8010
  /\ StackByte(\h00) = \h80 /\ StackByte(\hFF) = \h05
  /\ cpu.register_pc = \h8006
  /\ cpu.register_sp = \h00

\* the bus reads of the last operation, in order
Reads == Of(op.log, "R")

\* C18: RTI pops the status byte first and takes it as P with B = 0 and
\* U = 1, then pops PC low byte and then high byte, adds nothing to it and
\* leaves SP three higher (with 0xF5 and then the return address 0xBEEF on
\* the stack: P = 0xE5, PC = 0xBEEF).
C18_RtiPops ==
  (Done("step") /\ op.code = \h40) =>
    /\ Len(Reads) = 4
    /\ Reads[2].a = STACK + U8(prev.cpu.register_sp + 1)
    /\ Reads[3].a = STACK + U8(prev.cpu.register_sp + 2)
    /\ Reads[4].a = STACK + U8(prev.cpu.register_sp + 3)
    /\ cpu.flags = BitOr(BitAnd(Reads[2].d, \hEF), \h20)
    /\ cpu.register_pc = Word(Reads[4].d, Reads[3].d)
    /\ cpu.register_sp = U8(prev.cpu.register_sp + 3)
    /\ Of(op.log, "W") = << >>

\* RTI with 0xF5 on top of 0xEF and 0xBE
C18_Witness ==
  /\ Done("step") /\ op.code = \h40
  /\ Reads[2].d = \hF5 /\ Reads[3].d = \hEF /\ Reads[4].d = \hBE
  /\ prev.cpu.register_sp = \hFA
  /\ cpu.flags = \hE5
  /\ cpu.register_pc = \hBEEF
  /\ cpu.register_sp = \hFD

\* the bus writes of the last operation, in order
Writes == Of(op.log, "W")

\* C19: PHP pushes P with bits 4 and 5 set and leaves P as it was; PHP
\* and then PLP leave P as it was before the PHP but for bit 5 = 1 and
\* bit 4 = 0, and SP as it was before the PHP.
C19_PhpPlpRoundTrip ==
  /\ (Done("step") /\ op.code = \h08) =>
       /\ Len(Writes) = 1
       /\ Writes[1].a = STACK + prev.cpu.register_sp
       /\ Writes[1].d = BitOr(prev.cpu.flags, \h30)
       /\ StackByte(prev.cpu.register_sp) = BitOr(prev.cpu.flags, \h30)
       /\ cpu.flags = prev.cpu.flags
       /\ cpu.register_sp = U8(prev.cpu.register_sp + 255)
  /\ Pair(\h08, \h28) =>
       /\ cpu.flags = BitOr(BitAnd(prev.before.flags, \hEF), \h20)
       /\ cpu.register_sp = prev.before.register_sp

\* PHP and PLP after LDA #$7F ; ADC #$7F (N and V set): 0xF4 was pushed
\* and P is 0xE4 again
C19_Witness ==
  /\ Pair(\h08, \h28)
  /\ prev.before.flags = \hE4
  /\ prev.before.register_sp = \hFD
  /\ prev.cpu.flags = \hE4
  /\ StackByte(\hFD) = \hF4
  /\ cpu.flags = \hE4
  /\ cpu.register_sp = \hFD

\* C20: PHA writes A at 0x0100+SP and then decrements SP; PLA increments
\* SP and then reads A at 0x0100+SP; PHA and then PLA give the byte pushed
\* and SP as before, for every byte and every SP (with SP = 0x00 the
\* decrement wraps to 0xFF), and every stack access is in 0x0100-0x01FF.
C20_PhaPlaRoundTrip ==
  /\ (Done("step") /\ op.code = \h48) =>
       /\ Len(Writes) = 1
       /\ Writes[1].a = STACK + prev.cpu.register_sp
       /\ Writes[1].d = prev.cpu.register_a
       /\ cpu.register_sp = U8(prev.cpu.register_sp + 255)
  /\ (Done("step") /\ op.code = \h68) =>
       /\ Len(Reads) = 2
       /\ Reads[2].a = STACK + U8(prev.cpu.register_sp + 1)
       /\ cpu.register_a = Reads[2].d
       /\ cpu.register_sp = U8(prev.cpu.register_sp + 1)
  /\ (Done("step") /\ op.code \in { \h48, \h68 }) =>
       \A i \in 2..Len(op.log) :
         op.log[i].a >= \h0100 /\ op.log[i].a <= \h01FF
  /\ Pair(\h48, \h68) =>
       /\ cpu.register_a = prev.before.register_a
       /\ cpu.register_sp = prev.before.register_sp

\* PHA of 0x80 with SP = 0x00 (written at $0100, SP wrapped to 0xFF) and
\* PLA (SP back at 0x00, A = 0x80 read at $0100)
C20_Witness ==
  /\ Pair(\h48, \h68)
  /\ prev.before.register_sp = \h00
  /\ prev.before.register_a = \h80
  /\ prev.cpu.register_sp = \hFF
  /\ StackByte(\h00) = \h80
  /\ Reads[2].a = \h0100
  /\ cpu.register_a = \h80
  /\ cpu.register_sp = \h00

\* the last operation was one PPU::step() call
Ticked == op.name = "tick"

\* the PPU is at cycle c of scanline s
At(s, c) == ppu.scanline = s /\ ppu.cycles = c

\* C23: PPU::step() sets status bit 7 on the tick that arrives at scanline
\* 241, cycle 1, and raises the NMI request on that tick if and only if
\* control bit 7 is set; it clears status bit 7 on the tick that arrives
\* at scanline -1, cycle 1; no other tick changes status bit 7 or the NMI
\* request.
C23_VBlankTiming ==
  Ticked =>
    /\ At(241, 1) =>
         /\ BitAnd(ppu.status, \h80) # 0
         /\ ppu.nmi_triggered =
              (prev.ppu.nmi_triggered \/ BitAnd(ppu.control, \h80) # 0)
    /\ At(-1, 1) =>
         /\ BitAnd(ppu.status, \h80) = 0
         /\ ppu.nmi_triggered = prev.ppu.nmi_triggered
    /\ ~(At(241, 1) \/ At(-1, 1)) =>
         /\ ppu.status = prev.ppu.status
         /\ ppu.nmi_triggered = prev.ppu.nmi_triggered

\* the tick into scanline 241, cycle 1 with NMIs enabled: VBlank and the
\* request, both clear before it, are set
C23_Witness ==
  /\ Ticked /\ At(241, 1)
  /\ ppu.control = \h80
  /\ prev.ppu.status = \h00 /\ ~prev.ppu.nmi_triggered
  /\ ppu.status = \h80 /\ ppu.nmi_triggered

\* C24: after any number of PPU::step() calls from PPU::new() the cycle
\* counter is in 0..340 and the scanline in -1..261; the scanline changes
\* only on the tick that wraps the cycle counter to 0, and the frame
\* counter goes up, by one, only when the scanline wraps from 261 to -1.
C24_PpuCounters ==
  /\ ppu.cycles \in 0..340
  /\ ppu.scanline \in -1..261
  /\ Ticked =>
       /\ ppu.cycles = IF prev.ppu.cycles = 340 THEN 0 ELSE prev.ppu.cycles + 1
       /\ ppu.scanline =
            IF ppu.cycles # 0 THEN prev.ppu.scanline
            ELSE IF prev.ppu.scanline = 261 THEN -1
            ELSE prev.ppu.scanline + 1
       /\ ppu.frame =
            IF prev.ppu.scanline = 261 /\ ppu.scanline = -1
            THEN prev.ppu.frame + 1 ELSE prev.ppu.frame

\* the tick that ends scanline 261: the first frame is counted
C24_Witness ==
  /\ Ticked
  /\ prev.ppu.scanline = 261 /\ prev.ppu.cycles = 340 /\ prev.ppu.frame = 0
  /\ At(-1, 0)
  /\ ppu.frame = 1

\* the RAM cells (indices into cpu_vram) the last operation wrote
CellsWritten ==
  { BitAnd(op.log[i].a, \h07FF) : i \in Accesses("W", \h0000, \h1FFF) }

\* the last of the writes the last operation made to the cell of write i
LastToCell(i) ==
  \A j \in Accesses("W", \h0000, \h1FFF) :
    BitAnd(op.log[j].a, \h07FF) = BitAnd(op.log[i].a, \h07FF) => j <= i

\* the absolute operand of the instruction the last step() ran, and of the
\* one before it
Operand == WordAt(U16(prev.cpu.register_pc + 1))
OperandBefore == WordAt(U16(prev.before.register_pc + 1))

\* C21: after a write of b to an address a in 0x0000-0x1FFF, a read of
\* each of the four mirrors (a & 0x07FF) | k*0x0800 returns b, and the
\* write changes no RAM cell other than a & 0x07FF.
C21_RamMirrors ==
  /\ (Done("step") \/ Done("nmi")) =>
       /\ \A i \in Accesses("W", \h0000, \h1FFF) :
            LastToCell(i) =>
              \A k \in 0..3 :
                Bus_mem_read(cpu_vram, Mirror(op.log[i].a, k)) = op.log[i].d
       /\ \A c \in (DOMAIN cpu_vram \cup DOMAIN prev.cpu_vram) \ CellsWritten :
            RamByte(cpu_vram, c) = RamByte(prev.cpu_vram, c)
       /\ DOMAIN cpu_vram \subseteq 0..\h07FF
  /\ (Pair(\h8D, \hAE) /\ OperandBefore <= \h1FFF
        /\ \E k \in 0..3 : Operand = Mirror(OperandBefore, k)) =>
       cpu.register_x = prev.cpu.register_a

\* STA $1FFF with A = 0xFF and then LDX $07FF: X = 0xFF
C21_Witness ==
  /\ Pair(\h8D, \hAE)
  /\ OperandBefore = \h1FFF /\ Operand = \h07FF
  /\ prev.cpu.register_a = \hFF
  /\ prev.before.register_x = \h00
  /\ RamByte(cpu_vram, \h07FF) = \hFF
  /\ cpu.register_x = \hFF

\* the index into the PRG-ROM that the claim gives for address a
PrgIndex(a) ==
  IF rom.len = \h4000 THEN (a - \h8000) % \h4000 ELSE a - \h8000

\* C22: a read of a in 0x8000-0xFFFF returns PRG[a - 0x8000], taken modulo
\* 0x4000 on a 16K PRG-ROM (so a and a + 0x4000 read the same byte); the
\* index is within the PRG length, and the reads change no state: the
\* same address gives the same byte again.
C22_PrgRead ==
  /\ \A i \in Accesses("R", \h8000, \hFFFF) :
       /\ PrgIndex(op.log[i].a) \in 0..(rom.len - 1)
       /\ op.log[i].d = PrgByte(PrgIndex(op.log[i].a))
       /\ \A j \in Accesses("R", \h8000, \hFFFF) :
            op.log[j].a = op.log[i].a => op.log[j].d = op.log[i].d
  /\ (halt = "run" /\ Writes = << >>) => cpu_vram = prev.cpu_vram
  /\ (Pair(\hAE, \hAC) /\ rom.len = \h4000 /\ OperandBefore <= \hBFFF
        /\ Operand = OperandBefore + \h4000) =>
       cpu.register_y = cpu.register_x

\* LDX $8006 ; LDY $C006 on a 16K cartridge: both read the 0x5A at PRG[6]
C22_Witness ==
  /\ Pair(\hAE, \hAC)
  /\ rom.len = \h4000
  /\ OperandBefore = \h8006 /\ Operand = \hC006
  /\ Reads[4].a = \hC006 /\ Reads[4].d = \h5A
  /\ cpu.register_x = \h5A /\ cpu.register_y = \h5A

\* the byte the last step() took as its operand: the last byte it read
OperandByte == Reads[Len(Reads)].d

\* the carry flag before the last step(), as a number
CarryIn == IF get_bit(prev.cpu.flags, CARRY) THEN 1 ELSE 0

\* bit 7 of a byte
Bit7(b) == b >= \h80

\* the last step() left A and the flags C, V, Z, N as the addition
\* A + m + C does, and the other four flags as they were
Added(m) ==
  LET sum    == prev.cpu.register_a + m + CarryIn
      result == sum % 256
  IN  /\ cpu.register_a = result
      /\ get_bit(cpu.flags, CARRY) = (sum > \hFF)
      /\ get_bit(cpu.flags, OVERFLOW) =
           ((Bit7(m) # Bit7(result)) /\ (Bit7(result) # Bit7(prev.cpu.register_a)))
      /\ get_bit(cpu.flags, ZERO) = (result = 0)
      /\ get_bit(cpu.flags, NEGATIVE) = Bit7(result)
      /\ \A f \in { INT, DECIMAL, BFLAG, UFLAG } :
           get_bit(cpu.flags, f) = get_bit(prev.cpu.flags, f)

\* ADC in its eight addressing modes
AdcCodes == { \h69, \h65, \h75, \h6D, \h7D, \h79, \h61, \h71 }

\* C25: ADC leaves A = (A + M + C) mod 256, C = (A + M + C > 0xFF),
\* V = bit 7 of (M xor result) and (result xor A) with the A from before,
\* Z = (result = 0) and N = bit 7 of the result; A = 0x50, M = 0x50, C = 0
\* gives A = 0xA0 with N = 1, V = 1, C = 0, Z = 0.
C25_Adc ==
  /\ (Done("step") /\ op.code \in AdcCodes) => Added(OperandByte)
  /\ (Done("step") /\ op.code \in AdcCodes /\ prev.cpu.register_a = \h50
        /\ OperandByte = \h50 /\ CarryIn = 0) =>
       /\ cpu.register_a = \hA0
       /\ get_bit(cpu.flags, NEGATIVE) /\ get_bit(cpu.flags, OVERFLOW)
       /\ ~get_bit(cpu.flags, CARRY) /\ ~get_bit(cpu.flags, ZERO)

\* CLC ; LDA #$50 ; ADC #$50 has run: A = 0xA0, N and V set, C and Z clear
C25_Witness ==
  /\ Done("step") /\ op.code = \h69
  /\ prev.cpu.register_a = \h50 /\ OperandByte = \h50 /\ CarryIn = 0
  /\ prev.op.code = \hA9
  /\ cpu.register_a = \hA0
  /\ get_bit(cpu.flags, NEGATIVE) /\ get_bit(cpu.flags, OVERFLOW)
  /\ ~get_bit(cpu.flags, CARRY) /\ ~get_bit(cpu.flags, ZERO)

\* SBC in its eight addressing modes
SbcCodes == { \hE9, \hE5, \hF5, \hED, \hFD, \hF9, \hE1, \hF1 }

\* an SBC has run with A = 0x50, M = 0xF0 and C = 1
SbcExample ==
  /\ Done("step") /\ op.code \in SbcCodes
  /\ prev.cpu.register_a = \h50 /\ OperandByte = \hF0 /\ CarryIn = 1

\* C26: with A = 0x50, M = 0xF0 and C = 1, SBC leaves A = 0x60, N = 0,
\* C = 0, Z = 0 and V = 0 (80 - (-16) = 96 is within the signed range).
C26_SbcExample ==
  SbcExample =>
    /\ cpu.register_a = \h60
    /\ ~get_bit(cpu.flags, NEGATIVE) /\ ~get_bit(cpu.flags, OVERFLOW)
    /\ ~get_bit(cpu.flags, CARRY) /\ ~get_bit(cpu.flags, ZERO)

\* SEC ; LDA #$50 ; SBC #$F0 has run: A = 0x60 and N, V, C, Z are clear
C26_Witness ==
  /\ SbcExample /\ op.code = \hE9 /\ prev.op.code = \hA9
  /\ cpu.register_a = \h60
  /\ BitAnd(cpu.flags, \hC3) = 0

\* C26 as stated: the same example leaves V = 1
C26_AsStated ==
  SbcExample =>
    /\ cpu.register_a = \h60
    /\ ~get_bit(cpu.flags, NEGATIVE) /\ get_bit(cpu.flags, OVERFLOW)
    /\ ~get_bit(cpu.flags, CARRY) /\ ~get_bit(cpu.flags, ZERO)

\* the one's complement of a byte
Complement(b) == 255 - b

\* C30: SBC leaves the A and the flags C, V, Z, N that ADC leaves on the
\* operand (~M) mod 256, and the unofficial 0xEB leaves what SBC immediate
\* (0xE9) leaves on the same A, M and carry.
C30_SbcIsAdcOfComplement ==
  (Done("step") /\ op.code \in SbcCodes \cup { \hEB }) =>
    Added(Complement(OperandByte))

\* SEC ; LDA #$80 ; *SBC #$01 has run: A = 0x7F with C and V set, as
\* 0x80 + 0xFE + 1 gives
C30_Witness ==
  /\ Done("step") /\ op.code = \hEB /\ prev.op.code = \hA9
  /\ prev.cpu.register_a = \h80 /\ OperandByte = \h01 /\ CarryIn = 1
  /\ cpu.register_a = \h7F
  /\ get_bit(cpu.flags, CARRY) /\ get_bit(cpu.flags, OVERFLOW)
  /\ ~get_bit(cpu.flags, NEGATIVE) /\ ~get_bit(cpu.flags, ZERO)

\* the addressing mode and the mnemonic of the opcode the last step() ran
Mode == Opcode(op.code).mode
Mnemonic == Opcode(op.code).mnemonic

\* the families that are charged for a page crossing ("NOPR" is the
\* unofficial NOP that reads its operand)
ReadFamilies ==
  { "ADC", "AND", "CMP", "EOR", "LDA", "LDX", "LDY", "ORA", "SBC", "LAX",
    "NOPR" }

\* the address the index is added to: the operand word, or for (zp),Y the
\* word the zero-page operand points at
IndexBase ==
  IF Mode = "IndirectY"
  THEN LET zp == Bus_mem_read(prev.cpu_vram, U16(prev.cpu.register_pc + 1))
       IN  Word(Bus_mem_read(prev.cpu_vram, U8(zp + 1)),
                Bus_mem_read(prev.cpu_vram, zp))
  ELSE Operand

Index ==
  IF Mode = "AbsoluteX" THEN prev.cpu.register_x ELSE prev.cpu.register_y

\* the indexed address has another high byte than its base
Crossed == Hi(U16(IndexBase + Index)) # Hi(IndexBase)

Indexed ==
  Done("step") /\ Mode \in { "AbsoluteX", "AbsoluteY", "IndirectY" }

\* the PPU ticks the last operation made
Ticks3 == ppu_ticks - prev.ppu_ticks

\* the last step() cost its base cycles and extra more, at 3 ticks each
Charged(extra) ==
  /\ Cost = Opcode(op.code).cycles + extra
  /\ Ticks3 = 3 * Cost

\* C27: an indexed instruction is charged one cycle (3 PPU ticks) more
\* than its base cycles exactly when it is of a read family and the
\* indexed address is in another page than its base; stores and
\* read-modify-write instructions are never charged.
C27_PageCrossPenalty ==
  Indexed =>
    Charged(IF Mnemonic \in ReadFamilies /\ Crossed THEN 1 ELSE 0)


\* the address JMP indirect takes the high byte of its target from, for
\* the pointer p
HighByteAt(p) ==
  IF Lo(p) = \hFF THEN Hi(p) * 256 ELSE p + 1

\* the last step() was a JMP indirect that returned
JumpedIndirect == Done("step") /\ op.code = \h6C

\* C28: JMP (p) reads the low byte of its target at p and the high byte
\* at p + 1, but for p = $xxFF at $xx00 of the same page; PC becomes that
\* target (unless the target is the address of the JMP's own operand).
C28_JmpIndirect ==
  JumpedIndirect =>
    /\ Len(Reads) = 5
    /\ Reads[4].a = Operand
    /\ Reads[5].a = HighByteAt(Operand)
    /\ Word(Reads[5].d, Reads[4].d) # U16(prev.cpu.register_pc + 1) =>
         cpu.register_pc = Word(Reads[5].d, Reads[4].d)

\* LDA #$80 ; STA $0200 ; JMP ($02FF) has run: the low byte 0x00 came from
\* $02FF, the high byte 0x80 from $0200 and not from $0300, PC = $8000
C28_Witness ==
  /\ JumpedIndirect /\ Operand = \h02FF
  /\ Reads[4].a = \h02FF /\ Reads[4].d = \h00
  /\ Reads[5].a = \h0200 /\ Reads[5].d = \h80
  /\ RamByte(cpu_vram, \h0300) = \h00
  /\ cpu.register_pc = \h8000

\* branches, JMP, JMP indirect, JSR, RTS, RTI and BRK
ControlCodes == Branches \cup { \h4C, \h6C, \h20, \h60, \h40, \h00 }

\* the last operation was a step() on an opcode that is not one of them
SteppedOver == op.name = "step" /\ op.code \notin ControlCodes

\* C29: after step() on an opcode that is not a branch, jump, call, return
\* or BRK, PC is the address of the opcode byte plus the opcode's length,
\* modulo 65536, whatever the registers and the memory hold.
C29_PcAdvance ==
  SteppedOver =>
    /\ halt = "run"
    /\ cpu.register_pc = U16(prev.cpu.register_pc + Opcode(op.code).len)

---------------------------------------------------------------------------
(* Compares, zero-page addressing, unofficial opcodes, interrupts *)

\* the register a compare opcode compares, as it was before the step
Compared ==
  CASE Mnemonic = "CMP" -> prev.cpu.register_a
    [] Mnemonic = "CPX" -> prev.cpu.register_x
    [] Mnemonic = "CPY" -> prev.cpu.register_y

ComparedStep ==
  Done("step") /\ Mnemonic \in { "CMP", "CPX", "CPY" }

\* C31: a compare of the register r with the operand M sets C = (r >= M),
\* Z = (r = M) and N = bit 7 of (r - M) mod 256, and leaves A, X, Y, SP,
\* V and every byte of memory as they were.
C31_Compare ==
  ComparedStep =>
    /\ get_bit(cpu.flags, CARRY) = (Compared >= OperandByte)
    /\ get_bit(cpu.flags, ZERO) = (Compared = OperandByte)
    /\ get_bit(cpu.flags, NEGATIVE) = Bit7((Compared - OperandByte) % 256)
    /\ get_bit(cpu.flags, OVERFLOW) = get_bit(prev.cpu.flags, OVERFLOW)
    /\ cpu.register_a = prev.cpu.register_a
    /\ cpu.register_x = prev.cpu.register_x
    /\ cpu.register_y = prev.cpu.register_y
    /\ cpu.register_sp = prev.cpu.register_sp
    /\ cpu_vram = prev.cpu_vram
    /\ Writes = << >>

\* LDX #$80 ; CPX #$80 has run: C = 1, Z = 1, N = 0
C31_Witness ==
  /\ ComparedStep /\ op.code = \hE0 /\ prev.op.code = \hA2
  /\ prev.cpu.register_x = \h80 /\ OperandByte = \h80
  /\ get_bit(cpu.flags, CARRY) /\ get_bit(cpu.flags, ZERO)
  /\ ~get_bit(cpu.flags, NEGATIVE)
  /\ cpu.register_x = \h80

\* the zero-page operand byte of the instruction the last step() ran
ZpOperand == Bus_mem_read(prev.cpu_vram, U16(prev.cpu.register_pc + 1))

\* where a zero-page indexed pointer or address is, inside page zero
ZpIndexed ==
  CASE Mode = "ZeroPageX" -> (ZpOperand + prev.cpu.register_x) % 256
    [] Mode = "ZeroPageY" -> (ZpOperand + prev.cpu.register_y) % 256
    [] Mode = "IndirectX" -> (ZpOperand + prev.cpu.register_x) % 256
    [] Mode = "IndirectY" -> ZpOperand

\* C32: zero-page address arithmetic wraps inside page zero: the access
\* of ZeroPageX/ZeroPageY is at (operand + X or Y) mod 256, IndirectX reads
\* its pointer at ptr and (ptr + 1) mod 256 with ptr = (operand + X) mod
\* 256, IndirectY reads its pointer at base and (base + 1) mod 256; no
\* pointer byte is read at 0x0100.
C32_ZeroPageWraps ==
  /\ (Done("step") /\ Mode \in { "ZeroPageX", "ZeroPageY" }) =>
       /\ Len(op.log) >= 3
       /\ op.log[3].a = ZpIndexed
  /\ (Done("step") /\ Mode \in { "IndirectX", "IndirectY" }) =>
       /\ Len(Reads) >= 4
       /\ Reads[3].a = ZpIndexed
       /\ Reads[4].a = (ZpIndexed + 1) % 256

\* the machine as the handler of the last step() found it: the state the
\* step started from, with PC past the opcode byte
Fetched ==
  [ register_a |-> prev.cpu.register_a, register_x |-> prev.cpu.register_x,
    register_y |-> prev.cpu.register_y, register_sp |-> prev.cpu.register_sp,
    register_pc |-> U16(prev.cpu.register_pc + 1), flags |-> prev.cpu.flags,
    cycles |-> prev.cpu.cycles, cpu_vram |-> prev.cpu_vram, ppu |-> prev.ppu,
    halt |-> "run", data |-> 0, addr |-> 0, ticks |-> prev.ppu_ticks,
    log |-> << >> ]

\* the official read-modify-write operation of an unofficial opcode, run
\* on machine m
Modified(m) ==
  CASE Mnemonic = "SLO" -> asl(m, Mode)
    [] Mnemonic = "RLA" -> rol(m, Mode)
    [] Mnemonic = "SRE" -> lsr(m, Mode)
    [] Mnemonic = "RRA" -> ror(m, Mode)
    [] Mnemonic = "DCP" -> dec(m, Mode)
    [] Mnemonic = "ISB" -> inc(m, Mode)

\* the official operation that follows it, run on machine m with the byte
\* at the address m has just written as its operand
Combined(m) ==
  LET there(r) == [r EXCEPT !.register_pc = r.addr]
      run_(r)  == CASE Mnemonic = "SLO" -> ora(r, "Immediate")
                    [] Mnemonic = "RLA" -> and(r, "Immediate")
                    [] Mnemonic = "SRE" -> eor(r, "Immediate")
                    [] Mnemonic = "RRA" -> adc(r, "Immediate")
                    [] Mnemonic = "DCP" -> cmp(r, "Immediate")
                    [] Mnemonic = "ISB" -> sbc(r, "Immediate")
  IN  run_(there(m))

\* the last step() left memory, A and the flags as machine r has them
SameOutcome(r) ==
  /\ cpu_vram = r.cpu_vram
  /\ cpu.register_a = r.register_a
  /\ cpu.flags = r.flags

CombinedStep ==
  /\ Done("step")
  /\ Mnemonic \in { "SLO", "RLA", "SRE", "RRA", "DCP", "ISB" }

\* C33: SLO, RLA, SRE, RRA, DCP and ISB write the byte that ASL, ROL, LSR,
\* ROR, DEC, INC write to the same address, and leave memory, A and the
\* flags as that operation followed by ORA, AND, EOR, ADC, CMP, SBC on the
\* new memory value leaves them (the operand being in RAM, where a read
\* returns the byte written).
C33_CombinedOpcodes ==
  CombinedStep =>
    /\ Len(Writes) = 1
    /\ Writes = Of(Modified(Fetched).log, "W")
    /\ Writes[1].a <= \h1FFF => SameOutcome(Combined(Modified(Fetched)))

\* LDA #$80 ; STA $10 ; ADC #$FF ; DCP $10 has run: the operand is 0x7F,
\* equal to A, so that C and Z are set
C33_Witness ==
  /\ CombinedStep /\ op.code = \hC7
  /\ prev.cpu.register_a = \h7F
  /\ Writes[1].a = \h10 /\ Writes[1].d = \h7F
  /\ RamByte(cpu_vram, \h10) = \h7F
  /\ get_bit(cpu.flags, CARRY) /\ get_bit(cpu.flags, ZERO)

\* trigger_nmi() and then a step() that ran RTI
NmiThenRti ==
  /\ Done("step") /\ op.code = \h40
  /\ prev.op.name = "nmi"

\* C34: trigger_nmi() followed at once by a step() that runs RTI leaves
\* PC and SP as they were before the NMI, and P as it was but for B = 0
\* and U = 1.
C34_NmiRtiRoundTrip ==
  NmiThenRti =>
    /\ cpu.register_pc = prev.before.register_pc
    /\ cpu.register_sp = prev.before.register_sp
    /\ cpu.flags = BitOr(BitAnd(prev.before.flags, \hEF), \h20)

\* the scanline and the cycle the PPU is at after t ticks from PPU::new():
\* 341 cycles to a line, the lines 0..261 and then -1
LineAfter(t) ==
  IF (t \div 341) % 263 = 262 THEN -1 ELSE (t \div 341) % 263
CycleAfter(t) == t % 341

\* the ticks of the last operation that arrived at scanline 241, cycle 1
Raising ==
  { t \in (prev.ppu_ticks + 1)..ppu_ticks :
      LineAfter(t) = 241 /\ CycleAfter(t) = 1 }

NmiEnabled == BitAnd(ppu.control, \h80) # 0

\* C35: in the driver loop a request is on exactly when the step() just
\* made raised it, is then serviced by one trigger_nmi() and cleared before
\* the next step(); the 21 ticks of trigger_nmi() raise no request that
\* the clearing would lose, and one step() raises at most one.
C35_NmiServicedOnce ==
  /\ ppu.scanline = LineAfter(ppu_ticks) /\ ppu.cycles = CycleAfter(ppu_ticks)
  /\ op.name = "step" => Cardinality(Raising) <= 1
  /\ op.name = "nmi" => (Raising = {} /\ ppu_ticks = prev.ppu_ticks + 21)
  /\ loc = "check" => (ppu.nmi_triggered <=> (NmiEnabled /\ Raising # {}))
  /\ loc = "nmi" => (ppu.nmi_triggered /\ op.name = "step" /\ Raising # {})
  /\ loc = "clear" => (ppu.nmi_triggered /\ op.name = "nmi")
  /\ loc \in { "while", "step", "events", "present" } => ~ppu.nmi_triggered

\* trigger_nmi() has run on the request raised at scanline 241 and the
\* request is about to be cleared: its 21 ticks raised none
C35_Witness ==
  /\ loc = "clear" /\ op.name = "nmi" /\ prev.op.name = "step"
  /\ ppu.nmi_triggered /\ NmiEnabled
  /\ ppu.scanline = 241 /\ ppu.cycles > 21
  /\ Raising = {}

\* C36: bit 4 (B) of the status register is 0 in every state that
\* reset(), step() and trigger_nmi() reach, also after PLP and RTI have
\* popped a byte that has it set; it is 1 in the copy PHP pushes.
C36_BreakFlagClear ==
  /\ ~get_bit(cpu.flags, BFLAG)
  /\ (Done("step") /\ op.code = \h08) => get_bit(Writes[1].d, BFLAG)

\* LDA #$FF ; PHA ; PLP has run: the byte popped is 0xFF and P is 0xEF
C36_Witness ==
  /\ Done("step") /\ op.code = \h28
  /\ Len(Reads) = 2 /\ Reads[2].d = \hFF
  /\ cpu.flags = \hEF

VBlank == BitAnd(ppu.status, \h80) # 0

\* the frame counter after t ticks from PPU::new(): it goes up on the tick
\* that ends scanline 261, first after 341 x 262 ticks and then every
\* 341 x 263 ticks
FrameAfter(t) == (t + 341) \div (341 * 263)

\* is_new_frame goes up only on the tick that arrives at scanline -1,
\* cycle 1
RaisedAtPreRender ==
  (~ppu.is_new_frame /\ ppu'.is_new_frame) =>
    (ppu'.scanline = -1 /\ ppu'.cycles = 1)

\* C37: stepped again and again, the PPU goes from each frame to the
\* next, 341 x 263 ticks after the one before; in each frame status bit 7
\* is set, and it is cleared again after; is_new_frame is raised in each
\* frame, on the tick that arrives at scanline -1, cycle 1.
C37_FramesForever ==
  /\ [](ppu.frame = FrameAfter(ppu_ticks))
  /\ [][RaisedAtPreRender]_vars
  /\ \A f \in 0..(LiveFrames - 1) :
       /\ (ppu.frame = f) ~> (ppu.frame = f /\ VBlank)
       /\ (ppu.frame = f) ~> (ppu.frame = f + 1 /\ ~VBlank)
       /\ (ppu.frame = f) ~> (ppu.frame = f + 1 /\ ppu.is_new_frame)
  /\ VBlank ~> ~VBlank

\* the second frame has ended 341 x 263 ticks after the first
C37_Witness ==
  /\ ppu.frame = 2 /\ ppu.scanline = -1 /\ ppu.cycles = 0
  /\ ppu_ticks = 341 * 262 + 341 * 263
  /\ VBlank

\* a step() that ran one rotate of A, right after a step() that ran the
\* other
RotatedBack ==
  /\ Done("step") /\ prev.op.name = "step"
  /\ << prev.op.code, op.code >> \in RotatePairs

\* C38: ROL A followed by ROR A, and ROR A followed by ROL A, leave A and
\* the carry flag as they were before the first of the two; the first
\* rotate moves the bit shifted out into the carry and the old carry into
\* the vacated bit.
C38_RotateRoundTrip ==
  /\ RotatedBack =>
       /\ cpu.register_a = prev.before.register_a
       /\ get_bit(cpu.flags, CARRY) = get_bit(prev.before.flags, CARRY)
  /\ (Done("step") /\ op.code = \h2A) =>
       /\ get_bit(cpu.flags, CARRY) = Bit7(prev.cpu.register_a)
       /\ cpu.register_a =
            ((prev.cpu.register_a * 2) % 256)
              + (IF get_bit(prev.cpu.flags, CARRY) THEN 1 ELSE 0)
  /\ (Done("step") /\ op.code = \h6A) =>
       /\ get_bit(cpu.flags, CARRY) = (prev.cpu.register_a % 2 = 1)
       /\ cpu.register_a =
            (prev.cpu.register_a \div 2)
              + (IF get_bit(prev.cpu.flags, CARRY) THEN 128 ELSE 0)

\* $FF with the carry clear has gone through ROR A (A = $7F, C = 1) and
\* ROL A
C38_Witness ==
  /\ RotatedBack /\ op.code = \h2A
  /\ prev.before.register_a = \hFF /\ ~get_bit(prev.before.flags, CARRY)
  /\ prev.cpu.register_a = \h7F /\ get_bit(prev.cpu.flags, CARRY)
  /\ cpu.register_a = \hFF /\ ~get_bit(cpu.flags, CARRY)
=============================================================================
